---- MODULE Spec2Model ----
(***************************************************************************)
(* Model of pt_ana_ts (PrimeTime report analysis): the rules-file loader   *)
(* load_times_cfg, the summary loop of report_summary and the sticky-tag   *)
(* walk of get_time_bar_info.                                              *)
(*                                                                         *)
(* Text is modelled as sequences of one-character strings, so that the     *)
(* string operations of the source (split, strip, lower) are computed and  *)
(* not assumed.                                                            *)
(***************************************************************************)
EXTENDS Integers, Sequences, FiniteSets, TLC

VARIABLES
  \* ---- load_times_cfg
  cons_cfg,   \* the configuration dictionary under construction
  fno,        \* enumerate(fp, 1): number of the line being processed
  line,       \* the raw text of the line read last
  file,       \* the lines consumed from fp so far, in order
  cfg_pc,     \* "read" | "error" | "returned"
  err_ln,     \* the line number cited by the SyntaxError (0: none raised)
  notice,     \* TRUE when the "[INFO] ... ignore" notice was printed
  \* ---- get_time_bar_info, the walk over one sub-path
  aid,          \* the cell attribute matched: "name" (pc) or "cell" (cc)
  default_tag,  \* the legend tag of unclassified cells
  seg_dict,     \* the classification table (cons_cfg['pc'] or ['cc'])
  type_,        \* the sub-path walked: "l", "c" or "d"
  has_f,        \* 'f' in bar_ptype
  spin,         \* path.spin, as a 0-based index
  init_tag,     \* the tag the walk starts with (None: no classification)
  tag,          \* the current tag
  cid,          \* the 0-based index of the cell handled last (-1: none yet)
  cell,         \* cell.__dict__[aid] of the cell handled last
  lv_ce_path,   \* the cells of the bars
  lv_key_path,  \* the legend key of each bar
  lv_c_path,    \* the colour of each bar
  lv_ha_path,   \* the hatch pattern of each bar
  bar_lg_path,  \* the legend: key -> colour, in order of first use
  bar_pc,       \* "idle" | "start" | "walk" | "done"
  \* ---- report_summary
  args,           \* the parsed command line
  time_rpt_path,  \* time_rpt.path: the paths of the parsed report
  pid,            \* enumerate(time_rpt.path): index of the next path
  sum_pc,         \* "idle" | "load" | "loop" | "done" | "error"
  sum_err,        \* the exception that ended the function ("": none)
  stdout,         \* the lines printed, each with the path that printed it
  ckc_calls,      \* the calls of time_rpt.clock_path_check, in order
  seg_calls,      \* the calls of time_rpt.get_path_segment, in order
  csv_head,       \* the columns of the csv
  csv_row,        \* the row dictionary, reused by every path
  csv_table,      \* the rows collected: the header, then one per path
  csv_file,       \* the lines written to args.csv_fp (None: not written)
  bar_dtype,      \* the data types of the bar chart, after show_time_bar
  db,             \* show_time_bar: the series of the chart, [title, data]
  \* ---- main
  arg_range,   \* args.range: the -r argument (None: absent)
  todo,        \* the elements of args.range.split(',') not yet handled
  range_list,  \* the scan ranges [st, ed, nu] collected so far
  main_pc,     \* "idle" | "start" | "loop" | "done"
  \* ---- show_time_bar, the handlers of the chart window
  pt_anno_list,  \* per chart, the bubbles [pt, anno, info] of its bars
  event,         \* the event handled last ("": none yet)
  \* ---- utils/common.py, str2int
  str_,       \* the text to convert
  is_signed,  \* signed mode
  bits,       \* the bit width
  num,        \* the value returned
  str_pc      \* "idle" | "call" | "return" | "ValueError"

cfg_vars == <<cons_cfg, fno, line, file, cfg_pc, err_ln, notice>>

bar_vars == <<aid, default_tag, seg_dict, type_, has_f, spin, init_tag, tag,
              cid, cell, lv_ce_path, lv_key_path, lv_c_path, lv_ha_path,
              bar_lg_path, bar_pc>>

sum_vars == <<args, time_rpt_path, pid, sum_pc, sum_err, stdout, ckc_calls,
              seg_calls, csv_head, csv_row, csv_table, csv_file, bar_dtype,
              db>>

main_vars == <<arg_range, todo, range_list, main_pc>>

key_vars == <<pt_anno_list, event>>

str_vars == <<str_, is_signed, bits, num, str_pc>>

vars == <<cfg_vars, bar_vars, sum_vars, main_vars, key_vars, str_vars>>

\* what an operation of one function leaves alone: the state of the others
not_cfg_vars == <<bar_vars, sum_vars, main_vars, key_vars, str_vars>>
not_bar_vars == <<cfg_vars, sum_vars, main_vars, key_vars, str_vars>>
not_sum_vars == <<cfg_vars, bar_vars, main_vars, key_vars, str_vars>>
not_main_vars == <<cfg_vars, bar_vars, sum_vars, key_vars, str_vars>>
not_key_vars == <<cfg_vars, bar_vars, sum_vars, main_vars, str_vars>>
not_str_vars == <<cfg_vars, bar_vars, sum_vars, main_vars, key_vars>>

-----------------------------------------------------------------------------
(* Python string primitives                                                *)

Whitespace == {" ", "\t", "\n"}

\* str.lstrip() / str.rstrip() / str.strip()
RECURSIVE LStrip(_)
LStrip(s) ==
  IF s # <<>> /\ Head(s) \in Whitespace THEN LStrip(Tail(s)) ELSE s

RECURSIVE RStrip(_)
RStrip(s) ==
  IF s # <<>> /\ s[Len(s)] \in Whitespace
    THEN RStrip(SubSeq(s, 1, Len(s) - 1))
    ELSE s

Strip(s) == RStrip(LStrip(s))

\* str.split(sep) for a one-character separator: always at least one piece
RECURSIVE SplitAcc(_, _, _)
SplitAcc(s, sep, cur) ==
  IF s = <<>> THEN <<cur>>
  ELSE IF Head(s) = sep
    THEN <<cur>> \o SplitAcc(Tail(s), sep, <<>>)
    ELSE SplitAcc(Tail(s), sep, Append(cur, Head(s)))

Split(s, sep) == SplitAcc(s, sep, <<>>)

\* str.split() without argument: runs of whitespace separate, no empty piece
RECURSIVE SplitWsAcc(_, _)
SplitWsAcc(s, cur) ==
  IF s = <<>> THEN (IF cur = <<>> THEN <<>> ELSE <<cur>>)
  ELSE IF Head(s) \in Whitespace
    THEN (IF cur = <<>> THEN <<>> ELSE <<cur>>) \o SplitWsAcc(Tail(s), <<>>)
    ELSE SplitWsAcc(Tail(s), Append(cur, Head(s)))

SplitWs(s) == SplitWsAcc(s, <<>>)

Letters ==
  [ upper |-> <<"A","B","C","D","E","F","G","H","I","J","K","L","M",
                "N","O","P","Q","R","S","T","U","V","W","X","Y","Z">>,
    lower |-> <<"a","b","c","d","e","f","g","h","i","j","k","l","m",
                "n","o","p","q","r","s","t","u","v","w","x","y","z">> ]

LowerChar(c) ==
  IF \E i \in 1..Len(Letters.upper) : Letters.upper[i] = c
    THEN Letters.lower[CHOOSE i \in 1..Len(Letters.upper) : Letters.upper[i] = c]
    ELSE c

\* str.lower()
Lower(s) == [i \in 1..Len(s) |-> LowerChar(s[i])]

\* str(b).lower() for a bool b
StrBoolLower(b) ==
  IF b THEN <<"t","r","u","e">> ELSE <<"f","a","l","s","e">>

RECURSIVE Join(_, _)
Join(parts, sep) ==
  IF parts = <<>> THEN <<>>
  ELSE IF Len(parts) = 1 THEN parts[1]
  ELSE parts[1] \o sep \o Join(Tail(parts), sep)

-----------------------------------------------------------------------------
(* re.compile / Pattern.fullmatch, for the fragment of patterns used here: *)
(* a sequence of atoms (a literal character or '.'), each optionally       *)
(* followed by '*'.  A leading '*', a '**' and an unbalanced '(' or ')'    *)
(* make re.compile raise re.error.                                         *)

RECURSIVE ReValid(_)
ReValid(p) ==
  IF p = <<>> THEN TRUE
  ELSE IF Head(p) \in {"*", "(", ")", "[", "]", "\\", "+", "?", "{", "}",
                       "|", "^", "$"}
    THEN FALSE
  ELSE IF Len(p) >= 2 /\ p[2] = "*" THEN ReValid(SubSeq(p, 3, Len(p)))
  ELSE ReValid(Tail(p))

AtomMatch(a, c) == a = "." \/ a = c

RECURSIVE FullMatch(_, _)
FullMatch(p, s) ==
  IF p = <<>> THEN s = <<>>
  ELSE IF Len(p) >= 2 /\ p[2] = "*"
    THEN \/ FullMatch(SubSeq(p, 3, Len(p)), s)
         \/ /\ s # <<>>
            /\ AtomMatch(p[1], Head(s))
            /\ FullMatch(p, Tail(s))
    ELSE /\ s # <<>>
         /\ AtomMatch(p[1], Head(s))
         /\ FullMatch(Tail(p), Tail(s))

-----------------------------------------------------------------------------
(* Insertion-ordered dict (Python dict): a sequence of <<key, value>>.     *)
(* Assigning to a key that is present replaces the value in place;         *)
(* assigning to a new key appends.                                         *)

DictHas(d, k) == \E i \in 1..Len(d) : d[i][1] = k

DictGet(d, k) == d[CHOOSE i \in 1..Len(d) : d[i][1] = k][2]

DictSet(d, k, v) ==
  IF DictHas(d, k)
    THEN [i \in 1..Len(d) |-> IF d[i][1] = k THEN <<k, v>> ELSE d[i]]
    ELSE Append(d, <<k, v>>)

DictKeys(d) == [i \in 1..Len(d) |-> d[i][1]]

\* Optional value: None is the empty sequence, a value v is <<v>>
None == <<>>
Some(v) == <<v>>

-----------------------------------------------------------------------------
(* load_times_cfg: the toggle table and the default configuration          *)

attr ==
  <<
    [key  |-> <<"c","l","o","c","k","_","c","h","e","c","k","_","e","n","a","b","l","e">>,
     name |-> "ckc_en", dflt |-> FALSE],
    [key  |-> <<"d","e","l","t","a","_","s","u","m","_","e","n","a","b","l","e">>,
     name |-> "dts_en", dflt |-> FALSE],
    [key  |-> <<"p","a","t","h","_","s","e","g","m","e","n","t","_","e","n","a","b","l","e">>,
     name |-> "seg_en", dflt |-> FALSE],
    [key  |-> <<"c","k","m","_","w","i","t","h","_","n","o","n","_","c","l","o","c","k","_","c","e","l","l">>,
     name |-> "ckm_nock", dflt |-> FALSE],
    [key  |-> <<"t","h","r","o","u","g","h","_","p","i","n","_","o","n","_","r","e","p","o","r","t">>,
     name |-> "thp_on_rpt", dflt |-> FALSE],
    [key  |-> <<"s","l","a","c","k","_","o","n","_","r","e","p","o","r","t">>,
     name |-> "slk_on_rpt", dflt |-> TRUE],
    [key  |-> <<"c","l","o","c","k","_","u","n","c","e","r","t","a","i","n","t","y","_","o","n","_","r","e","p","o","r","t">>,
     name |-> "unce_on_rpt", dflt |-> FALSE],
    [key  |-> <<"l","i","b","r","a","r","y","_","r","e","q","u","i","r","e","d","_","o","n","_","r","e","p","o","r","t">>,
     name |-> "lib_on_rpt", dflt |-> FALSE],
    [key  |-> <<"d","a","t","a","p","a","t","h","_","l","e","v","e","l","_","o","n","_","r","e","p","o","r","t">>,
     name |-> "dplv_on_rpt", dflt |-> FALSE],
    [key  |-> <<"c","l","o","c","k","_","s","k","e","w","_","o","n","_","r","e","p","o","r","t">>,
     name |-> "ck_skew_on_rpt", dflt |-> TRUE],
    [key  |-> <<"s","e","g","m","e","n","t","_","d","a","t","a","_","l","a","t","e","n","c","y","_","o","n","_","r","e","p","o","r","t">>,
     name |-> "seg_dlat_on_rpt", dflt |-> TRUE],
    [key  |-> <<"s","e","g","m","e","n","t","_","d","a","t","a","_","d","e","l","t","a","_","o","n","_","r","e","p","o","r","t">>,
     name |-> "seg_ddt_on_rpt", dflt |-> TRUE],
    [key  |-> <<"s","e","g","m","e","n","t","_","l","a","u","n","c","h","_","c","l","k","_","l","a","t","e","n","c","y","_","o","n","_","r","e","p","o","r","t">>,
     name |-> "seg_llat_on_rpt", dflt |-> TRUE],
    [key  |-> <<"s","e","g","m","e","n","t","_","l","a","u","n","c","h","_","c","l","k","_","d","e","l","t","a","_","o","n","_","r","e","p","o","r","t">>,
     name |-> "seg_ldt_on_rpt", dflt |-> TRUE],
    [key  |-> <<"s","e","g","m","e","n","t","_","c","a","p","t","u","r","e","_","c","l","k","_","l","a","t","e","n","c","y","_","o","n","_","r","e","p","o","r","t">>,
     name |-> "seg_clat_on_rpt", dflt |-> TRUE],
    [key  |-> <<"s","e","g","m","e","n","t","_","c","a","p","t","u","r","e","_","c","l","k","_","d","e","l","t","a","_","o","n","_","r","e","p","o","r","t">>,
     name |-> "seg_cdt_on_rpt", dflt |-> TRUE],
    [key  |-> <<"s","e","g","m","e","n","t","_","c","a","p","t","u","r","e","_","c","l","k","_","l","a","t","e","n","c","y","_","i","n","c","l","u","d","e","_","c","r","p","r">>,
     name |-> "seg_clat_inc_crpr", dflt |-> TRUE]
  >>

AttrNames == {attr[i].name : i \in 1..Len(attr)}

IsAttrKey(key) == \E i \in 1..Len(attr) : attr[i].key = key

AttrOf(key) == attr[CHOOSE i \in 1..Len(attr) : attr[i].key = key]

AttrByName(n) == attr[CHOOSE i \in 1..Len(attr) : attr[i].name = n]

\* cons_cfg = dict(attr.values()); cons_cfg.update({...})
DefaultCfg ==
  [n \in AttrNames |-> AttrByName(n).dflt] @@
  [bds |-> <<>>, ckpc |-> {}, ckpi |-> {}, ckpr |-> <<>>,
   hcd |-> <<>>,
   ckt |-> <<>>, ckm |-> <<>>, dpc |-> None, pc |-> <<>>, cc |-> <<>>,
   dc |-> <<>>]

-----------------------------------------------------------------------------
(* decimal.Decimal(str), for the fragment [sign] digits [ '.' digits ]     *)
(* (at least one digit); every other string used here is one Decimal       *)
(* rejects (InvalidOperation).                                             *)

Digits == {"0","1","2","3","4","5","6","7","8","9"}

AllDigits(s) == \A i \in 1..Len(s) : s[i] \in Digits

DecimalValid(s) ==
  LET body == IF s # <<>> /\ Head(s) \in {"+", "-"} THEN Tail(s) ELSE s
      parts == Split(body, ".")
  IN  /\ Len(parts) \in {1, 2}
      /\ \A i \in 1..Len(parts) : AllDigits(parts[i])
      /\ \E i \in 1..Len(parts) : parts[i] # <<>>

-----------------------------------------------------------------------------
(* load_times_cfg: one handler per key.  Each yields                        *)
(* [raised |-> an exception was raised, cfg |-> the dictionary afterwards]. *)

Ok(cfg) == [raised |-> FALSE, cfg |-> cfg]
Raise(cfg) == [raised |-> TRUE, cfg |-> cfg]

\* (variant: the value read as a conventional boolean, "true" or not)
SetTogglePlain(cfg, key, value) ==
  Ok([cfg EXCEPT ![AttrOf(key).name] = (Lower(value) = StrBoolLower(TRUE))])

\* (variant: a toggled key is never reset by a later line)
SetToggleSticky(cfg, key, value) ==
  LET a == AttrOf(key)
  IN  IF Lower(value) = StrBoolLower(~a.dflt)
        THEN Ok([cfg EXCEPT ![a.name] = ~a.dflt])
        ELSE Ok(cfg)

\* key in attr: toggle on the exact opposite of the default
SetToggle(cfg, key, value) ==
  LET a == AttrOf(key)
      change_value == StrBoolLower(~a.dflt)
  IN  IF Lower(value) = change_value
        THEN Ok([cfg EXCEPT ![a.name] = ~a.dflt])
        ELSE Ok([cfg EXCEPT ![a.name] = a.dflt])

\* key == 'bds':  tag, *pat = value.split()
SetBds(cfg, value) ==
  LET toks == SplitWs(value)
  IN  IF Len(toks) < 1 THEN Raise(cfg)
      ELSE Ok([cfg EXCEPT !["bds"] = DictSet(@, toks[1], Tail(toks))])

\* key == 'ckt':  tag, pat = value.split(); compile; y/n
SetCkt(cfg, value) ==
  LET toks == SplitWs(value)
  IN  IF Len(toks) # 2 THEN Raise(cfg)
      ELSE IF ~ReValid(toks[2]) THEN Raise(cfg)
      ELSE IF Lower(toks[1]) = <<"y">>
        THEN Ok([cfg EXCEPT !["ckt"] = Append(@, <<TRUE, toks[2]>>)])
      ELSE IF Lower(toks[1]) = <<"n">>
        THEN Ok([cfg EXCEPT !["ckt"] = Append(@, <<FALSE, toks[2]>>)])
      ELSE Raise(cfg)

\* (variant: instance names land in the cell-name set)
SetCkpSameSet(cfg, value) ==
  LET toks == SplitWs(value)
      pat == Tail(toks)
      patset == {pat[i] : i \in 1..Len(pat)}
  IN  IF Len(toks) < 1 THEN Raise(cfg)
      ELSE IF toks[1] \in {<<"c">>, <<"i">>}
        THEN Ok([cfg EXCEPT !["ckpc"] = @ \cup patset])
      ELSE IF toks[1] = <<"r">>
        THEN IF \A i \in 1..Len(pat) : ReValid(pat[i])
               THEN Ok([cfg EXCEPT !["ckpr"] = @ \o pat])
               ELSE Raise(cfg)
      ELSE Raise(cfg)

\* key == 'ckp':  type_, *pat = value.split(); match type_
SetCkp(cfg, value) ==
  LET toks == SplitWs(value)
      pat == Tail(toks)
      patset == {pat[i] : i \in 1..Len(pat)}
  IN  IF Len(toks) < 1 THEN Raise(cfg)
      ELSE IF toks[1] = <<"c">>
        THEN Ok([cfg EXCEPT !["ckpc"] = @ \cup patset])
      ELSE IF toks[1] = <<"i">>
        THEN Ok([cfg EXCEPT !["ckpi"] = @ \cup patset])
      ELSE IF toks[1] = <<"r">>
        THEN IF \A i \in 1..Len(pat) : ReValid(pat[i])
               THEN Ok([cfg EXCEPT !["ckpr"] = @ \o pat])
               ELSE Raise(cfg)
      ELSE Raise(cfg)

\* key == 'ckm':  re.compile(value.split()[0])
SetCkm(cfg, value) ==
  LET toks == SplitWs(value)
  IN  IF Len(toks) < 1 THEN Raise(cfg)
      ELSE IF ~ReValid(toks[1]) THEN Raise(cfg)
      ELSE Ok([cfg EXCEPT !["ckm"] = Append(@, toks[1])])

\* (variant: dpc accepted only when pc already holds it)
SetDpcEager(cfg, value) ==
  IF DictHas(cfg["pc"], value)
    THEN Ok([cfg EXCEPT !["dpc"] = Some(value)])
    ELSE Ok([cfg EXCEPT !["dpc"] = None])

\* key == 'dpc':  stored verbatim
SetDpc(cfg, value) == Ok([cfg EXCEPT !["dpc"] = Some(value)])

\* key == 'pc' / 'cc':  tag, pat = value.split(); cons_cfg[tbl][tag] = compile
SetTagRe(cfg, tbl, value) ==
  LET toks == SplitWs(value)
  IN  IF Len(toks) # 2 THEN Raise(cfg)
      ELSE IF ~ReValid(toks[2]) THEN Raise(cfg)
      ELSE Ok([cfg EXCEPT ![tbl] = DictSet(@, toks[1], toks[2])])

\* key == 'dc':  v1, v2, *_ = value.split()
SetDc(cfg, value) ==
  LET toks == SplitWs(value)
  IN  IF Len(toks) < 2 THEN Raise(cfg)
      ELSE IF toks[1] = <<"r">>
        THEN IF ReValid(toks[2])
               THEN Ok([cfg EXCEPT !["dc"] =
                          DictSet(@, <<"r","e">>, <<"re", toks[2]>>)])
               ELSE Raise(cfg)
      ELSE IF DecimalValid(toks[1])
        THEN Ok([cfg EXCEPT !["dc"] =
                   DictSet(@, toks[2], <<"decimal", toks[1]>>)])
      ELSE Raise(cfg)

\* the hcd handler with the table of the cell type started afresh
SetHcdFresh(cfg, value) ==
  LET toks == Split(value, "\"")
      head == SplitWs(toks[1])
      quoted == Len(toks) > 1
      okLen == IF quoted THEN Len(head) = 3 ELSE Len(head) = 4
      htag == IF quoted THEN toks[2] ELSE head[4]
      pipo == head[2] \o <<":">> \o head[3]
  IN  IF ~okLen THEN Raise(cfg)
      ELSE Ok([cfg EXCEPT !["hcd"] =
                 DictSet(@, head[1], DictSet(<<>>, pipo, htag))])

\* key == 'hcd':  toks = value.split('"'); the tag is toks[1] when quoted
SetHcd(cfg, value) ==
  LET toks == Split(value, "\"")
      head == SplitWs(toks[1])
      quoted == Len(toks) > 1
      okLen == IF quoted THEN Len(head) = 3 ELSE Len(head) = 4
      htag == IF quoted THEN toks[2] ELSE head[4]
      htype == head[1]
      pipo == head[2] \o <<":">> \o head[3]
      hcd_dict == IF DictHas(cfg["hcd"], htype)
                    THEN DictGet(cfg["hcd"], htype) ELSE <<>>
  IN  IF ~okLen THEN Raise(cfg)
      ELSE Ok([cfg EXCEPT !["hcd"] =
                 DictSet(@, htype, DictSet(hcd_dict, pipo, htag))])

Key ==
  [
    bds |-> <<"b","d","s">>,
    ckt |-> <<"c","k","t">>,
    ckp |-> <<"c","k","p">>,
    ckm |-> <<"c","k","m">>,
    dpc |-> <<"d","p","c">>,
    pc |-> <<"p","c">>,
    cc |-> <<"c","c">>,
    dc |-> <<"d","c">>,
    hcd |-> <<"h","c","d">>
  ]

\* the line stripped, its comment kept
StripLineKeepComment(raw) == Strip(raw)

\* line = line.split('#')[0].strip()
StripLine(raw) == Strip(Split(raw, "#")[1])

\* the body of the try block for a non-empty stripped line
ParseLine(cfg, ln) ==
  LET kv == Split(ln, ":")
      key == Strip(kv[1])
      value == Strip(kv[2])
  IN  IF Len(kv) # 2 THEN Raise(cfg)
      ELSE IF IsAttrKey(key) THEN SetToggle(cfg, key, value)
      ELSE IF key = Key.bds THEN SetBds(cfg, value)
      ELSE IF key = Key.ckt THEN SetCkt(cfg, value)
      ELSE IF key = Key.ckp THEN SetCkp(cfg, value)
      ELSE IF key = Key.ckm THEN SetCkm(cfg, value)
      ELSE IF key = Key.dpc THEN SetDpc(cfg, value)
      ELSE IF key = Key.pc THEN SetTagRe(cfg, "pc", value)
      ELSE IF key = Key.cc THEN SetTagRe(cfg, "cc", value)
      ELSE IF key = Key.dc THEN SetDc(cfg, value)
      ELSE IF key = Key.hcd THEN SetHcd(cfg, value)
      ELSE Ok(cfg)

\* one iteration of the for loop over the file
LoadLine(cfg, raw) ==
  LET ln == StripLine(raw)
  IN  IF ln = <<>> THEN Ok(cfg) ELSE ParseLine(cfg, ln)

\* the check after the loop: a dpc that is no key of pc is dropped
DpcDropped(cfg) == cfg["dpc"] # None /\ ~DictHas(cfg["pc"], cfg["dpc"][1])

FinalCfg(cfg) == IF DpcDropped(cfg) THEN [cfg EXCEPT !["dpc"] = None] ELSE cfg

-----------------------------------------------------------------------------
(* Rules-file lines the loader is run on                                   *)

RuleLine ==
  [
    \* (three spaces)
    blank |-> <<" "," "," ">>,
    \* # clock pins
    comment |-> <<"#"," ","c","l","o","c","k"," ","p","i","n","s">>,
    \* (indented)  # pc: A a.*  (with its line end)
    comment_pc |-> <<" "," ","#"," ","p","c",":"," ","A"," ","a",".","*","\n">>,
    \* clock_check_enable: true
    ckc_true |-> <<"c","l","o","c","k","_","c","h","e","c","k","_","e","n","a","b","l","e",":"," ","t","r","u","e">>,
    \*   slack_on_report :  FALSE  # off
    slk_off |-> <<" "," ","s","l","a","c","k","_","o","n","_","r","e","p","o","r","t"," ",":"," "," ","F","A","L","S","E"," "," ","#"," ","o","f","f">>,
    \* ckp: c CKBUF CKINV
    ckp_c |-> <<"c","k","p",":"," ","c"," ","C","K","B","U","F"," ","C","K","I","N","V">>,
    \* ckp: c CKMUX
    ckp_c2 |-> <<"c","k","p",":"," ","c"," ","C","K","M","U","X">>,
    \* ckp: i u1
    ckp_i |-> <<"c","k","p",":"," ","i"," ","u","1">>,
    \* ckp: r a.* b1
    ckp_r |-> <<"c","k","p",":"," ","r"," ","a",".","*"," ","b","1">>,
    \* ckp: r .*
    ckp_r2 |-> <<"c","k","p",":"," ","r"," ",".","*">>,
    \* ckp: c
    ckp_none |-> <<"c","k","p",":"," ","c">>,
    \* ckp x foo
    ckp_nocolon |-> <<"c","k","p"," ","x"," ","f","o","o">>,
    \* ckp: x foo
    ckp_x |-> <<"c","k","p",":"," ","x"," ","f","o","o">>,
    \* ckp: r a.* *a
    ckp_badre |-> <<"c","k","p",":"," ","r"," ","a",".","*"," ","*","a">>,
    \* pc: A a.*
    pc_A |-> <<"p","c",":"," ","A"," ","a",".","*">>,
    \* pc: B .*
    pc_B |-> <<"p","c",":"," ","B"," ",".","*">>,
    \* pc: A b.*
    pc_A2 |-> <<"p","c",":"," ","A"," ","b",".","*">>,
    \* pc: A
    pc_short |-> <<"p","c",":"," ","A">>,
    \* pc: A a:b
    pc_colon |-> <<"p","c",":"," ","A"," ","a",":","b">>,
    \* dpc: A
    dpc_A |-> <<"d","p","c",":"," ","A">>,
    \* dpc: Z
    dpc_Z |-> <<"d","p","c",":"," ","Z">>,
    \* cc: A a.*
    cc_A |-> <<"c","c",":"," ","A"," ","a",".","*">>,
    \* cc: B .*
    cc_B |-> <<"c","c",":"," ","B"," ",".","*">>,
    \* cc: A b.*
    cc_A2 |-> <<"c","c",":"," ","A"," ","b",".","*">>,
    \* ckt: y a.*
    ckt_y |-> <<"c","k","t",":"," ","y"," ","a",".","*">>,
    \* ckt: N .*
    ckt_N |-> <<"c","k","t",":"," ","N"," ",".","*">>,
    \* ckt: q a.*
    ckt_q |-> <<"c","k","t",":"," ","q"," ","a",".","*">>,
    \* bds: s1 p c
    bds |-> <<"b","d","s",":"," ","s","1"," ","p"," ","c">>,
    \* bds: s2 ct
    bds_ct |-> <<"b","d","s",":"," ","s","2"," ","c","t">>,
    \* ckm: a.* b.*
    ckm |-> <<"c","k","m",":"," ","a",".","*"," ","b",".","*">>,
    \* dc: r a.*
    dc_r |-> <<"d","c",":"," ","r"," ","a",".","*">>,
    \* dc: 1.5 BUF
    dc_num |-> <<"d","c",":"," ","1",".","5"," ","B","U","F">>,
    \* dc: r b.*
    dc_r2 |-> <<"d","c",":"," ","r"," ","b",".","*">>,
    \* dc: 1.5 re
    dc_re |-> <<"d","c",":"," ","1",".","5"," ","r","e">>,
    \* dc: 2 BUF
    dc_num2 |-> <<"d","c",":"," ","2"," ","B","U","F">>,
    \* dc: -0.7 INV x
    dc_inv |-> <<"d","c",":"," ","-","0",".","7"," ","I","N","V"," ","x">>,
    \* hcd: T a b "tag"
    hcd_qt |-> <<"h","c","d",":"," ","T"," ","a"," ","b"," ","\"","t","a","g","\"">>,
    \* hcd: T a c other
    hcd_c |-> <<"h","c","d",":"," ","T"," ","a"," ","c"," ","o","t","h","e","r">>,
    \* hcd: U a b tag
    hcd_U |-> <<"h","c","d",":"," ","U"," ","a"," ","b"," ","t","a","g">>,
    \* hcd: T a b new
    hcd_new |-> <<"h","c","d",":"," ","T"," ","a"," ","b"," ","n","e","w">>,
    \* dc: x BUF
    dc_bad |-> <<"d","c",":"," ","x"," ","B","U","F">>,
    \* hcd: T a b tag
    hcd |-> <<"h","c","d",":"," ","T"," ","a"," ","b"," ","t","a","g">>,
    \* hcd: T a b "my tag"
    hcd_q |-> <<"h","c","d",":"," ","T"," ","a"," ","b"," ","\"","m","y"," ","t","a","g","\"">>,
    \* hcd: T a b
    hcd_short |-> <<"h","c","d",":"," ","T"," ","a"," ","b">>,
    \* foo: bar
    unknown |-> <<"f","o","o",":"," ","b","a","r">>
  ]

\* the values tried after every toggle key, and the further values (another
\* case, a word that is no boolean) tried after the keys of CaseKeys
ToggleValues == { <<"t","r","u","e">>, <<"f","a","l","s","e">> }

OtherValues == { <<"T","r","u","e">>, <<"F","A","L","S","E">>, <<"n","o">> }

CaseKeys == {"ckc_en", "slk_on_rpt", "seg_en", "seg_clat_inc_crpr"}

ToggleLine(key, value) == key \o <<":", " ">> \o value

ToggleLines ==
  {ToggleLine(attr[i].key, v) : i \in 1..Len(attr), v \in ToggleValues}
    \cup {ToggleLine(AttrByName(n).key, v) : n \in CaseKeys, v \in OtherValues}
    \cup {RuleLine.slk_off, RuleLine.comment, RuleLine.pc_A}

GeneralLines ==
  {RuleLine.blank, RuleLine.comment, RuleLine.comment_pc, RuleLine.ckc_true, RuleLine.slk_off, RuleLine.ckp_c, RuleLine.ckp_nocolon,
   RuleLine.ckp_x, RuleLine.pc_A, RuleLine.pc_colon, RuleLine.dpc_A, RuleLine.ckt_q, RuleLine.bds, RuleLine.ckm, RuleLine.dc_bad,
   RuleLine.hcd_short, RuleLine.unknown}

TagLines ==
  {RuleLine.comment, RuleLine.pc_A, RuleLine.pc_B, RuleLine.pc_A2, RuleLine.dpc_A, RuleLine.dpc_Z,
   RuleLine.cc_A, RuleLine.cc_B, RuleLine.cc_A2, RuleLine.ckt_y, RuleLine.ckt_N}

CkpLines ==
  {RuleLine.blank, RuleLine.ckp_c, RuleLine.ckp_c2, RuleLine.ckp_i, RuleLine.ckp_r, RuleLine.ckp_r2, RuleLine.ckp_none,
   RuleLine.ckp_x, RuleLine.ckp_badre, RuleLine.pc_A}

\* the dc and hcd lines
TableLines ==
  {RuleLine.comment, RuleLine.dc_r, RuleLine.dc_r2, RuleLine.dc_num,
   RuleLine.dc_num2, RuleLine.dc_re, RuleLine.dc_inv, RuleLine.dc_bad,
   RuleLine.hcd, RuleLine.hcd_q, RuleLine.hcd_qt, RuleLine.hcd_c,
   RuleLine.hcd_U, RuleLine.hcd_new, RuleLine.hcd_short}

\* bounds on the number of lines of a rules file
MaxLines == 3
MaxToggleLines == 2

-----------------------------------------------------------------------------
(* load_times_cfg as a state machine                                       *)

\* (variant: enumerate(fp) counting from 0)
FnoFromZero(idx) == idx

\* enumerate(fp, 1): the number given to the line at 0-based position idx
Fno(idx) == idx + 1

InitCfg ==
  /\ cons_cfg = DefaultCfg
  /\ fno = 0
  /\ line = <<>>
  /\ file = <<>>
  /\ cfg_pc = "start"
  /\ err_ln = 0
  /\ notice = FALSE

\* cfg_fp is None: the defaults are returned at once
LoadNoFile ==
  /\ cfg_pc = "start"
  /\ cfg_pc' = "returned"
  /\ UNCHANGED <<cons_cfg, fno, line, file, err_ln, notice>>
  /\ UNCHANGED not_cfg_vars

\* with open(cfg_fp, 'r') as fp
LoadOpen ==
  /\ cfg_pc = "start"
  /\ cfg_pc' = "read"
  /\ UNCHANGED <<cons_cfg, fno, line, file, err_ln, notice>>
  /\ UNCHANGED not_cfg_vars

\* one iteration of `for fno, line in enumerate(fp, 1)`
ReadLine(raw, max) ==
  /\ cfg_pc = "read"
  /\ Len(file) < max
  /\ LET r == LoadLine(cons_cfg, raw)
     IN  /\ fno' = Fno(Len(file))
         /\ line' = raw
         /\ file' = Append(file, raw)
         /\ IF r.raised
              THEN /\ cfg_pc' = "error"
                   /\ err_ln' = fno'
                   /\ UNCHANGED cons_cfg
              ELSE /\ cons_cfg' = r.cfg
                   /\ UNCHANGED <<cfg_pc, err_ln>>
         /\ UNCHANGED notice
         /\ UNCHANGED not_cfg_vars

\* the file is exhausted: the dpc check, then return cons_cfg
LoadReturn ==
  /\ cfg_pc = "read"
  /\ notice' = DpcDropped(cons_cfg)
  /\ cons_cfg' = FinalCfg(cons_cfg)
  /\ cfg_pc' = "returned"
  /\ UNCHANGED <<fno, line, file, err_ln>>
  /\ UNCHANGED not_cfg_vars

NextGeneral ==
  \/ LoadNoFile
  \/ LoadOpen
  \/ \E raw \in GeneralLines : ReadLine(raw, MaxLines)
  \/ LoadReturn

NextTag ==
  \/ LoadNoFile
  \/ LoadOpen
  \/ \E raw \in TagLines : ReadLine(raw, MaxLines)
  \/ LoadReturn

NextCkp ==
  \/ LoadNoFile
  \/ LoadOpen
  \/ \E raw \in CkpLines : ReadLine(raw, MaxLines)
  \/ LoadReturn

NextTable ==
  \/ LoadNoFile
  \/ LoadOpen
  \/ \E raw \in TableLines : ReadLine(raw, MaxLines)
  \/ LoadReturn

NextToggle ==
  \/ LoadNoFile
  \/ LoadOpen
  \/ \E raw \in ToggleLines : ReadLine(raw, MaxToggleLines)
  \/ LoadReturn


CfgIdle ==
  /\ cons_cfg = DefaultCfg
  /\ fno = 0
  /\ line = <<>>
  /\ file = <<>>
  /\ cfg_pc = "idle"
  /\ err_ln = 0
  /\ notice = FALSE

-----------------------------------------------------------------------------
(* get_time_bar_info: the walk over one sub-path (one type_ of the loop    *)
(* over 'l', 'c', 'd').  The edge-colour list and the did/dsp indices      *)
(* follow the hatch list and are not kept.                                 *)

\* len(Palette.bar)
pal_cnt == 26

\* colours: Palette.bar_default, and Palette.bar[i]
bar_default == <<"bar_default", 0>>
PaletteBar(i) == <<"bar", i>>

\* bar_palette[key] = Palette.bar[i % pal_cnt], i the position of key
KeyIndex(d, k) == (CHOOSE i \in 1..Len(d) : d[i][1] = k) - 1

bar_palette(d, k) == PaletteBar(KeyIndex(d, k) % pal_cnt)

default_color(d, a) ==
  IF Len(d) = 0
    THEN (IF a = "cell" THEN bar_default ELSE PaletteBar(0))
    ELSE bar_default

\* init_tag = default_tag if default_tag in seg_dict else None
InitTag(d, dflt) ==
  IF Len(d) = 0 THEN None
  ELSE IF DictHas(d, dflt) THEN Some(dflt) ELSE None

\* bar_lg_path at the start of a sub-path and at the data-only reset
InitLegend(d, a, dflt, itag) ==
  IF itag = None THEN << <<dflt, default_color(d, a)>> >> ELSE <<>>

\* (variant: no break, the last matching key is kept)
RECURSIVE FindTagLast(_, _, _)
FindTagLast(d, itag, name) ==
  IF d = <<>> THEN itag
  ELSE IF FullMatch(d[Len(d)][2], name) THEN Some(d[Len(d)][1])
  ELSE FindTagLast(SubSeq(d, 1, Len(d) - 1), itag, name)

\* new_tag = init_tag; for key, ps_re in seg_dict.items(): first full match
RECURSIVE FindTag(_, _, _)
FindTag(d, itag, name) ==
  IF d = <<>> THEN itag
  ELSE IF FullMatch(d[1][2], name) THEN Some(d[1][1])
  ELSE FindTag(Tail(d), itag, name)

\* (variant: the table is searched for every cell)
StickyTagAlways(d, itag, cur, name) ==
  IF Len(d) = 0 THEN cur ELSE FindTag(d, itag, name)

\* (variant: the current tag is kept when no pattern matches)
StickyTagKeep(d, itag, cur, name) ==
  IF Len(d) = 0 THEN cur
  ELSE IF cur = None \/ ~FullMatch(DictGet(d, cur[1]), name)
    THEN FindTag(d, cur, name)
    ELSE cur

\* the tag after a cell: searched again only when the current tag is unset
\* or its pattern does not full-match the cell
StickyTag(d, itag, cur, name) ==
  IF Len(d) = 0 THEN cur
  ELSE IF cur = None \/ ~FullMatch(DictGet(d, cur[1]), name)
    THEN FindTag(d, itag, name)
    ELSE cur

\* the cell names and the tables the walk is run on
CellName ==
  [
    a1 |-> <<"a","1">>,
    a2 |-> <<"a","2">>,
    a3 |-> <<"a","3">>,
    b1 |-> <<"b","1">>,
    c1 |-> <<"c","1">>,
    clk |-> <<"c","l","k">>,
    bufA |-> <<"b","u","f","A">>,
    bufB |-> <<"b","u","f","B">>,
    bufC |-> <<"b","u","f","C">>,
    bufD |-> <<"b","u","f","D">>
  ]
Names == {CellName.a1, CellName.a2, CellName.a3, CellName.b1, CellName.c1}

TagName ==
  [
    A |-> <<"A">>,
    B |-> <<"B">>,
    TP |-> <<"T","P">>,
    UN |-> <<"U","N">>
  ]
Pattern ==
  [
    a |-> <<"a",".","*">>,
    b |-> <<"b",".","*">>,
    any |-> <<".","*">>
  ]

Table ==
  [ AB |-> << <<TagName.A, Pattern.a>>, <<TagName.B, Pattern.b>> >>,
    AAny |-> << <<TagName.A, Pattern.a>>, <<TagName.B, Pattern.any>> >>,
    TP |-> << <<TagName.TP, Pattern.b>>, <<TagName.A, Pattern.a>> >> ]
\* the calls of show_time_bar: ('name', dpc or 'TP', pc), where dpc is a key
\* of pc or unset, and ('cell', 'UN', cc)
Calls ==
  { [aid |-> "name", default_tag |-> TagName.A,  seg_dict |-> Table.AB],
    [aid |-> "name", default_tag |-> TagName.A,  seg_dict |-> Table.AAny],
    [aid |-> "name", default_tag |-> TagName.TP, seg_dict |-> Table.AB],
    [aid |-> "name", default_tag |-> TagName.TP, seg_dict |-> Table.TP],
    [aid |-> "name", default_tag |-> TagName.TP, seg_dict |-> <<>>],
    [aid |-> "cell", default_tag |-> TagName.UN, seg_dict |-> Table.AAny],
    [aid |-> "cell", default_tag |-> TagName.UN, seg_dict |-> <<>>] }

\* the positions tried for the startpoint pin of a data sub-path
SpinChoices == {0, 1}

\* bound: cells of a sub-path
MaxCells == 4

BarIdle ==
  /\ aid = "name" /\ default_tag = TagName.TP /\ seg_dict = <<>>
  /\ type_ = "l" /\ has_f = FALSE /\ spin = 0
  /\ init_tag = None /\ tag = None /\ cid = -1 /\ cell = <<>>
  /\ lv_ce_path = <<>> /\ lv_key_path = <<>> /\ lv_c_path = <<>>
  /\ lv_ha_path = <<>> /\ bar_lg_path = <<>>
  /\ bar_pc = "idle"

\* the set-up before the loop over the cells
BarSetup ==
  /\ bar_pc = "start"
  /\ init_tag' = InitTag(seg_dict, default_tag)
  /\ tag' = init_tag'
  /\ bar_lg_path' = InitLegend(seg_dict, aid, default_tag, init_tag')
  /\ bar_pc' = "walk"
  /\ UNCHANGED <<aid, default_tag, seg_dict, type_, has_f, spin, cid, cell,
                 lv_ce_path, lv_key_path, lv_c_path, lv_ha_path>>
  /\ UNCHANGED not_bar_vars

\* one iteration of `for cid, cell in enumerate(s_path)`
WalkCell(name) ==
  /\ bar_pc = "walk"
  /\ cid + 1 < MaxCells
  /\ LET new_tag == StickyTag(seg_dict, init_tag, tag, name)
         reset == (cid + 1 = spin /\ type_ = "d" /\ ~has_f)
         lg0 == IF reset
                  THEN InitLegend(seg_dict, aid, default_tag, init_tag)
                  ELSE bar_lg_path
         key == IF new_tag = None THEN default_tag ELSE new_tag[1]
         lg1 == IF DictHas(lg0, key)
                  THEN lg0
                  ELSE DictSet(lg0, key, bar_palette(seg_dict, key))
         ha == IF cid + 1 = spin /\ type_ = "d" THEN "/" ELSE ""
     IN  /\ cid' = cid + 1
         /\ cell' = name
         /\ tag' = new_tag
         /\ bar_lg_path' = lg1
         /\ lv_ce_path' = Append(IF reset THEN <<>> ELSE lv_ce_path, name)
         /\ lv_key_path' = Append(IF reset THEN <<>> ELSE lv_key_path, key)
         /\ lv_c_path' =
              Append(IF reset THEN <<>> ELSE lv_c_path, DictGet(lg1, key))
         /\ lv_ha_path' = Append(IF reset THEN <<>> ELSE lv_ha_path, ha)
  /\ UNCHANGED <<aid, default_tag, seg_dict, type_, has_f, spin, init_tag,
                 bar_pc>>
  /\ UNCHANGED not_bar_vars

\* m_bar_lg_path: the default tag first, then the keys of the table that
\* the legend of the sub-path holds, in table order
RECURSIVE MergeLegend(_, _, _)
MergeLegend(acc, d, lg) ==
  IF d = <<>> THEN acc
  ELSE MergeLegend(IF DictHas(lg, d[1][1])
                     THEN DictSet(acc, d[1][1], DictGet(lg, d[1][1]))
                     ELSE acc,
                   Tail(d), lg)

\* the sub-path is exhausted: the legend is put in table order
WalkEnd ==
  /\ bar_pc = "walk"
  /\ bar_lg_path' =
       (IF Len(seg_dict) # 0
          THEN MergeLegend(<< <<default_tag, default_color(seg_dict, aid)>> >>,
                           seg_dict, bar_lg_path)
          ELSE bar_lg_path)
  /\ bar_pc' = "done"
  /\ UNCHANGED <<aid, default_tag, seg_dict, type_, has_f, spin, init_tag,
                 tag, cid, cell, lv_ce_path, lv_key_path, lv_c_path,
                 lv_ha_path>>
  /\ UNCHANGED not_bar_vars

NextBar ==
  \/ BarSetup
  \/ \E name \in Names : WalkCell(name)
  \/ WalkEnd

-----------------------------------------------------------------------------
(* report_summary: the loop over the paths of the parsed report            *)
(*                                                                         *)
(* Times are fixed-point integers in units of 1e-4 (the precision of the   *)
(* report and of the `.4f` format), so 2.0 is 20000.  The lines recorded   *)
(* on stdout are the path header, the datapath level, the clock block, the *)
(* max-delay line and the segment notice; rulers and the slack, delta and  *)
(* segment figures are left out.  The bar options (-bard, -bars) are       *)
(* absent, so the tail of the function draws no chart.                     *)

\* one unit of the report in fixed point: 1.0
Unit == 10000

Abs(v) == IF v < 0 THEN -v ELSE v

DigitChars == <<"0","1","2","3","4","5","6","7","8","9">>

RECURSIVE NatStr(_)
NatStr(n) ==
  IF n < 10 THEN <<DigitChars[n + 1]>>
  ELSE NatStr(n \div 10) \o <<DigitChars[(n % 10) + 1]>>

\* the four decimals of a fraction 0..Unit-1
Frac4(n) ==
  <<DigitChars[(n \div 1000) + 1], DigitChars[((n \div 100) % 10) + 1],
    DigitChars[((n \div 10) % 10) + 1], DigitChars[(n % 10) + 1]>>

\* "{: 5.4f}".format(v): a blank or a minus, then four decimals
Fmt54(v) ==
  (IF v < 0 THEN <<"-">> ELSE <<" ">>)
    \o NatStr(Abs(v) \div Unit) \o <<".">> \o Frac4(Abs(v) % Unit)

RECURSIVE StripZeros(_)
StripZeros(s) ==
  IF Len(s) > 1 /\ s[Len(s)] = "0"
    THEN StripZeros(SubSeq(s, 1, Len(s) - 1))
    ELSE s

\* str(v) of a float, as csv.writer writes it: the shortest decimal
FloatStr(v) ==
  (IF v < 0 THEN <<"-">> ELSE <<>>)
    \o NatStr(Abs(v) \div Unit) \o <<".">> \o StripZeros(Frac4(Abs(v) % Unit))

UpperChar(c) ==
  IF \E i \in 1..Len(Letters.lower) : Letters.lower[i] = c
    THEN Letters.upper[CHOOSE i \in 1..Len(Letters.lower) : Letters.lower[i] = c]
    ELSE c

\* s.upper()
Upper(s) == [i \in 1..Len(s) |-> UpperChar(s[i])]

\* seq[i] of a Python list, i a 0-based or negative index in range
PyIndex(seq, i) == IF i >= 0 THEN seq[i + 1] ELSE seq[Len(seq) + i + 1]

\* seq.index(x): the 0-based position of the first x
PyFind(seq, x) == (CHOOSE i \in 1..Len(seq) :
                     seq[i] = x /\ \A j \in 1..(i - 1) : seq[j] # x) - 1

\* x in seq
PyIn(x, seq) == \E i \in 1..Len(seq) : seq[i] = x

\* the values of a csv row: a float, an int or a str
FloatV(v) == <<"float", v>>
IntV(v) == <<"int", v>>
StrV(s) == <<"str", s>>

\* str(value), the text csv.writer puts in the field
FieldStr(val) ==
  IF val[1] = "float" THEN FloatStr(val[2])
  ELSE IF val[1] = "int" THEN
         (IF val[2] < 0 THEN <<"-">> ELSE <<>>) \o NatStr(Abs(val[2]))
  ELSE val[2]

\* the column names of -csvc and of the csv header
Col ==
  [
    ln |-> <<"l","n">>,
    stp |-> <<"s","t","p">>,
    edp |-> <<"e","d","p">>,
    dlat |-> <<"d","l","a","t">>,
    arr |-> <<"a","r","r">>,
    req |-> <<"r","e","q">>,
    slk |-> <<"s","l","k">>,
    unce |-> <<"u","n","c","e">>,
    lib |-> <<"l","i","b">>,
    llat |-> <<"l","l","a","t">>,
    clat |-> <<"c","l","a","t">>,
    slat |-> <<"s","l","a","t">>,
    crpr |-> <<"c","r","p","r">>,
    skew |-> <<"s","k","e","w">>,
    ddt |-> <<"d","d","t">>,
    ldt |-> <<"l","d","t">>,
    cdt |-> <<"c","d","t">>,
    sllat |-> <<"s","l","l","a","t">>,
    sclat |-> <<"s","c","l","a","t">>,
    bllat |-> <<"b","l","l","a","t">>,
    bclat |-> <<"b","c","l","a","t">>
  ]

\* the attributes of a TimePath that path.__dict__[key] can read
PathAttrs ==
  {Col.ln, Col.arr, Col.req, Col.slk, Col.unce, Col.lib, Col.llat, Col.clat, Col.crpr,
   Col.ddt, Col.ldt, Col.cdt, Col.sllat, Col.sclat}

\* path.__dict__[key]
PathAttr(path, key) ==
  CASE key = Col.ln    -> IntV(path.ln)
    [] key = Col.arr   -> FloatV(path.arr)
    [] key = Col.req   -> FloatV(path.req)
    [] key = Col.slk   -> FloatV(path.slk)
    [] key = Col.unce  -> FloatV(path.unce)
    [] key = Col.lib   -> FloatV(path.lib)
    [] key = Col.llat  -> FloatV(path.llat)
    [] key = Col.clat  -> FloatV(path.clat)
    [] key = Col.crpr  -> FloatV(path.crpr)
    [] key = Col.ddt   -> FloatV(path.ddt)
    [] key = Col.ldt   -> FloatV(path.ldt)
    [] key = Col.cdt   -> FloatV(path.cdt)
    [] key = Col.sllat -> FloatV(path.sllat)
    [] key = Col.sclat -> FloatV(path.sclat)

\* ---- the paths of the report (TimePath objects)

\* a Pin of a path: its name, library cell, driving-cell id and report line
Pin(name, lib, drv, ln) == [name |-> name, cell |-> lib, drv |-> drv, ln |-> ln]

\* a register-to-register setup path: llat 2.0, clat 1.2, crpr 0.3
Path_reg ==
  [ln |-> 12, spin |-> Some(1),
   lpath |-> << Pin(CellName.c1, <<"C","K","B","U","F">>, 0, 10),
                Pin(CellName.a1, <<"D","F","F">>, 1, 11),
                Pin(CellName.a2, <<"B","U","F">>, 2, 12),
                Pin(CellName.b1, <<"D","F","F">>, 1, 13) >>,
   cpath |-> << Pin(CellName.c1, <<"C","K","B","U","F">>, 0, 20),
                Pin(CellName.b1, <<"M","U","X">>, -1, 21) >>,
   sgpi |-> None, egpi |-> None, max_dly_en |-> FALSE, max_dly |-> 0,
   arr |-> 31000, req |-> 40000, slk |-> 9000, idly |-> 0, sev |-> 0,
   eev |-> 30000, unce |-> 1000, lib |-> 500,
   llat |-> 20000, clat |-> 12000, crpr |-> 3000,
   sllat |-> 5000, sclat |-> 4000, ddt |-> 100, ldt |-> 20, cdt |-> 10]

\* a path whose capture clock is later than its launch clock: skew < 0
Path_neg ==
  [ln |-> 40, spin |-> Some(1),
   lpath |-> << Pin(CellName.c1, <<"C","K","B","U","F">>, 0, 38),
                Pin(CellName.a3, <<"D","F","F">>, 1, 39),
                Pin(CellName.b1, <<"X","O","R">>, -1, 40) >>,
   cpath |-> << Pin(CellName.c1, <<"C","K","B","U","F">>, 0, 44) >>,
   sgpi |-> None, egpi |-> None, max_dly_en |-> FALSE, max_dly |-> 0,
   arr |-> 18000, req |-> 16000, slk |-> -2000, idly |-> 0, sev |-> 0,
   eev |-> 0, unce |-> 0, lib |-> 300,
   llat |-> 10000, clat |-> 15500, crpr |-> 1234,
   sllat |-> 2000, sclat |-> 2500, ddt |-> 0, ldt |-> 0, cdt |-> 0]

\* a max-delay-only path (set_max_delay): no capture clock
Path_maxdly ==
  [ln |-> 77, spin |-> Some(1),
   lpath |-> << Pin(CellName.c1, <<"C","K","G","A","T","E">>, -1, 75),
                Pin(CellName.a1, <<"D","F","F">>, 1, 76),
                Pin(CellName.c1, <<"B","U","F">>, 2, 77) >>,
   cpath |-> <<>>,
   sgpi |-> None, egpi |-> None, max_dly_en |-> TRUE, max_dly |-> 50000,
   arr |-> 26000, req |-> 50000, slk |-> 24000, idly |-> 0, sev |-> 0,
   eev |-> 0, unce |-> 0, lib |-> 0,
   llat |-> 20000, clat |-> 0, crpr |-> 0,
   sllat |-> 5000, sclat |-> 0, ddt |-> 0, ldt |-> 0, cdt |-> 0]

\* a path that starts at an input port: no clock launch, spin is None
Path_in ==
  [ln |-> 95, spin |-> None,
   lpath |-> << Pin(CellName.b1, <<"B","U","F">>, 2, 94),
                Pin(CellName.a2, <<"D","F","F">>, 1, 95) >>,
   cpath |-> << Pin(CellName.c1, <<"C","K","B","U","F">>, 0, 97),
                Pin(CellName.a2, <<"D","F","F">>, 1, 98) >>,
   sgpi |-> None, egpi |-> None, max_dly_en |-> FALSE, max_dly |-> 0,
   arr |-> 9000, req |-> 20000, slk |-> 11000, idly |-> 5000, sev |-> 0,
   eev |-> 10000, unce |-> 0, lib |-> 400,
   llat |-> 0, clat |-> 11000, crpr |-> 0,
   sllat |-> 0, sclat |-> 3000, ddt |-> 0, ldt |-> 0, cdt |-> 0]

\* a path whose clock networks share clk, bufA, bufB and then part:
\* bufC on the launch side, bufD on the capture side
Path_fork ==
  [ln |-> 60, spin |-> Some(3),
   lpath |-> << Pin(CellName.clk, <<"C","K","B","U","F">>, 0, 51),
                Pin(CellName.bufA, <<"C","K","B","U","F">>, 0, 52),
                Pin(CellName.bufB, <<"C","K","B","U","F">>, 0, 53),
                Pin(CellName.bufC, <<"C","K","B","U","F">>, 0, 54),
                Pin(CellName.a1, <<"D","F","F">>, 1, 55) >>,
   cpath |-> << Pin(CellName.clk, <<"C","K","B","U","F">>, 0, 61),
                Pin(CellName.bufA, <<"C","K","B","U","F">>, 0, 62),
                Pin(CellName.bufB, <<"C","K","B","U","F">>, 0, 63),
                Pin(CellName.bufD, <<"C","K","B","U","F">>, 0, 64) >>,
   sgpi |-> None, egpi |-> None, max_dly_en |-> FALSE, max_dly |-> 0,
   arr |-> 22000, req |-> 30000, slk |-> 8000, idly |-> 0, sev |-> 0,
   eev |-> 20000, unce |-> 0, lib |-> 200,
   llat |-> 14000, clat |-> 13000, crpr |-> 2000,
   sllat |-> 3000, sclat |-> 3000, ddt |-> 0, ldt |-> 0, cdt |-> 0]

PathSet == {Path_reg, Path_neg, Path_maxdly, Path_in, Path_fork}

\* bound: paths of the report
MaxPaths == 2

\* bound: lines of the rules file report_summary loads
MaxSumLines == 2

\* ---- the command lines (the Namespace of create_argparse)

NoArgs ==
  [is_debug |-> FALSE, ckc_en |-> FALSE, ckc_dump |-> FALSE,
   seg_en |-> FALSE, csv_fp |-> None, csv_ctype |-> None,
   bar_set |-> None, bar_dtype |-> None, bar_ptype |-> None]

F_csv == <<"o",".","c","s","v">>

ArgsSet ==
  { NoArgs,
    [NoArgs EXCEPT !.ckc_en = TRUE],
    [NoArgs EXCEPT !.ckc_en = TRUE, !.ckc_dump = TRUE, !.seg_en = TRUE],
    [NoArgs EXCEPT !.is_debug = TRUE, !.ckc_en = TRUE],
    [NoArgs EXCEPT !.seg_en = TRUE],
    [NoArgs EXCEPT !.csv_fp = Some(F_csv)],
    [NoArgs EXCEPT !.csv_fp = Some(F_csv), !.seg_en = TRUE],
    [NoArgs EXCEPT !.csv_fp = Some(F_csv),
                   !.csv_ctype = Some(<<Col.llat, Col.clat, Col.crpr, Col.skew>>)],
    [NoArgs EXCEPT !.csv_fp = Some(F_csv), !.ckc_en = TRUE,
                   !.csv_ctype = Some(<<Col.skew, Col.arr, Col.skew>>)],
    [NoArgs EXCEPT !.csv_fp = Some(F_csv),
                   !.csv_ctype = Some(<<Col.stp, Col.slat, Col.edp>>)] }

\* ---- the pieces of one iteration

\* line 249
SkewAddCrpr(path) == path.llat - path.clat + path.crpr

Skew(path) == path.llat - path.clat - path.crpr

\* line 262
CkcCondAnyPath(a, cfg, path) == a.ckc_en \/ cfg["ckc_en"]

CkcCond(a, cfg, path) == (a.ckc_en \/ cfg["ckc_en"]) /\ ~path.max_dly_en

\* line 219
Dlat(path) == path.arr - path.idly - path.llat - path.sev

\* (variant: every line marked as printed by the first path)
LnFirst(p, label, text) == [pid |-> 0, label |-> label, text |-> text]

Ln(p, label, text) == [pid |-> p, label |-> label, text |-> text]

\* lines 192-205: the path header
HeadLines(p, path) ==
  << Ln(p, "Startpoint:", PyIndex(path.lpath, path.spin[1]).name),
     Ln(p, "Endpoint:", PyIndex(path.lpath, -1).name) >>

\* lines 241-243
LevelLines(p, cfg, path) ==
  IF cfg["slk_on_rpt"] /\ cfg["dplv_on_rpt"]
    THEN << Ln(p, "datapath level:",
               Fmt54((Len(path.lpath) - path.spin[1] - 1) * Unit)) >>
    ELSE <<>>

\* lines 251-260
SkewLines(p, cfg, path) ==
  IF ~cfg["ck_skew_on_rpt"] THEN <<>>
  ELSE IF path.max_dly_en
    THEN << Ln(p, "launch clock latency:", Fmt54(path.llat)) >>
    ELSE << Ln(p, "launch clock edge value:", Fmt54(path.sev)),
            Ln(p, "capture clock edge value:", Fmt54(path.eev)),
            Ln(p, "launch clock latency:", Fmt54(path.llat)),
            Ln(p, "capture clock latency:", Fmt54(path.clat)),
            Ln(p, "crpr:", Fmt54(path.crpr)),
            Ln(p, "clock skew:", Fmt54(Skew(path))) >>

\* time_rpt.clock_path_check, the fork detection (scc_rslt): the two clock
\* networks, lpath up to the startpoint and cpath, are walked in lockstep
\* from the source; the result is the number of pins they share before they
\* part (the full length when they never part) and the report line of the
\* pin that follows on each side (of the last pin where none follows)
SccCheck(path) ==
  LET l == SubSeq(path.lpath, 1, path.spin[1] + 1)
      c == path.cpath
      same == {k \in 0..Len(l) :
                 k <= Len(c) /\ \A i \in 1..k : l[i].name = c[i].name}
      fork == CHOOSE k \in same : \A j \in same : j <= k
      at(q) == IF q = <<>> THEN 0
               ELSE IF fork < Len(q) THEN q[fork + 1].ln ELSE q[Len(q)].ln
  IN  <<fork, at(l), at(c)>>

\* the verdicts time_rpt.clock_path_check can hand back for the source match
\* (gcc_rslt) and for the cell type check (ctc_rslt)
CkcVerdicts ==
  { [gcc |-> <<<<"P","A","S","S">>, <<>> >>, ctc |-> <<<<"P","A","S","S">>, <<>> >>],
    [gcc |-> <<<<"F","A","I","L">>, <<"(","l","n",":","1",")">> >>,
     ctc |-> <<<<"F","A","I","L">>, <<"(","l","n",":","2",")">> >>] }

\* (variant: the fork line alone, its two report lines the other way round)
CkcLinesSwapped(p, path, v, scc_rslt) ==
  << Ln(p, "clock network path fork:",
        NatStr(path.spin[1] + 1) \o <<"/">> \o NatStr(Len(path.cpath))
          \o <<"/">> \o NatStr(scc_rslt[1]) \o <<" ", " ", " ", " ">>
          \o <<"(", "l", "n", ":">> \o NatStr(scc_rslt[3])
          \o <<":">> \o NatStr(scc_rslt[2]) \o <<")">>) >>

\* lines 267-283: the three lines of the clock path check
CkcLines(p, path, v, scc_rslt) ==
  LET spath_len == IF path.sgpi = None THEN path.spin[1] + 1
                   ELSE path.spin[1] - path.sgpi[1]
      epath_len == IF path.egpi = None THEN Len(path.cpath)
                   ELSE Len(path.cpath) - path.egpi[1] - 1
      split_lv == NatStr(spath_len) \o <<"/">> \o NatStr(epath_len)
                    \o <<"/">> \o NatStr(scc_rslt[1])
      gap == <<" ", " ", " ", " ">>
      ljust(t) == IF Len(t) >= Len(split_lv) THEN t
                  ELSE t \o [i \in 1..(Len(split_lv) - Len(t)) |-> " "]
  IN  << Ln(p, "clock cell type check:", ljust(v.ctc[1]) \o gap \o v.ctc[2]),
         Ln(p, "clock source path match:",
            ljust(v.gcc[1]) \o gap \o v.gcc[2]),
         Ln(p, "clock network path fork:",
            split_lv \o gap \o <<"(", "l", "n", ":">> \o NatStr(scc_rslt[2])
              \o <<":">> \o NatStr(scc_rslt[3]) \o <<")">>) >>

\* lines 285-287
MaxDlyLines(p, path) ==
  IF path.max_dly_en
    THEN << Ln(p, "max delay:", Fmt54(path.max_dly)) >>
    ELSE <<>>

\* lines 308-382: "none" | "notice" | "segment" | "slat" | "TypeError"
SegMode(a, cfg) ==
  IF (a.seg_en \/ cfg["seg_en"]) /\ Len(cfg["pc"]) = 0 THEN "notice"
  ELSE IF (a.seg_en \/ cfg["seg_en"]) /\ Len(cfg["pc"]) # 0 THEN "segment"
  ELSE IF a.csv_fp # None
    THEN (IF a.csv_ctype = None THEN "TypeError"
          ELSE IF PyIn(Col.slat, a.csv_ctype[1]) THEN "slat" ELSE "none")
  ELSE "none"

\* lines 309 and 314-324: the first line of the segment block
SegLines(p, a, cfg) ==
  IF SegMode(a, cfg) = "notice"
    THEN << Ln(p, "Segment: path classify patterns is unexisted.", <<>>) >>
  ELSE IF SegMode(a, cfg) = "segment"
    THEN << Ln(p, "Segment:  (report path type:", <<>>) >>
  ELSE <<>>

\* lines 173-182: the header of the csv
CsvHead(a) ==
  LET head == IF a.csv_ctype # None
                THEN <<Col.ln>> \o a.csv_ctype[1]
                ELSE <<Col.ln, Col.arr, Col.req, Col.slk>>
  IN  IF PyIn(Col.slat, head)
        THEN LET idx == PyFind(head, Col.slat)
             IN  SubSeq(head, 1, idx)
                   \o <<Col.sllat, Col.sclat, Col.bllat, Col.bclat>>
                   \o SubSeq(head, idx + 2, Len(head))
        ELSE head

\* dict([(s, None) for s in csv_head])
RECURSIVE DictFromKeys(_, _)
DictFromKeys(acc, keys) ==
  IF keys = <<>> THEN acc
  ELSE DictFromKeys(DictSet(acc, keys[1], None), Tail(keys))

\* lines 388-404: the value of one column
CsvValue(cfg, path, key) ==
  IF key = Col.stp THEN StrV(PyIndex(path.lpath, path.spin[1]).name)
  ELSE IF key = Col.edp THEN StrV(PyIndex(path.lpath, -1).name)
  ELSE IF key = Col.dlat THEN FloatV(Dlat(path))
  ELSE IF key = Col.sclat /\ cfg["seg_clat_inc_crpr"]
    THEN FloatV(path.sclat + path.crpr)
  ELSE IF key = Col.bllat THEN FloatV(path.llat - path.sllat)
  ELSE IF key = Col.bclat THEN FloatV(path.clat - path.sclat)
  ELSE IF key = Col.skew THEN FloatV(Skew(path))
  ELSE PathAttr(path, key)

\* the keys of csv_row that path.__dict__ cannot serve
CsvKeyError(row) ==
  \E i \in 1..Len(row) :
    row[i][1] \notin PathAttrs \cup {Col.stp, Col.edp, Col.dlat, Col.bllat, Col.bclat,
                                     Col.skew}

\* lines 387-404: every key of csv_row is assigned
CsvFill(cfg, path, row) ==
  [i \in 1..Len(row) |-> <<row[i][1], CsvValue(cfg, path, row[i][1])>>]

\* list(csv_row.values())
DictValues(d) == [i \in 1..Len(d) |-> d[i][2]]

\* spamw.writerow(row) with delimiter ' '
CsvLine(row) == Join([i \in 1..Len(row) |-> FieldStr(row[i])], <<" ">>)

\* ---- the state machine

\* the rules-file lines of the summary runs
SumLines ==
  { RuleLine.ckc_true, RuleLine.pc_A,
    ToggleLine(AttrByName("ck_skew_on_rpt").key, <<"f","a","l","s","e">>),
    ToggleLine(AttrByName("seg_en").key, <<"t","r","u","e">>),
    ToggleLine(AttrByName("dplv_on_rpt").key, <<"t","r","u","e">>) }

SumIdle ==
  /\ args = NoArgs /\ time_rpt_path = <<>> /\ pid = 0
  /\ sum_pc = "idle" /\ sum_err = "" /\ stdout = <<>>
  /\ ckc_calls = <<>> /\ seg_calls = <<>>
  /\ csv_head = <<>> /\ csv_row = <<>> /\ csv_table = <<>> /\ csv_file = None
  /\ bar_dtype = {} /\ db = <<>>

\* time_rpt.parse_report, then the debug return or the csv header
SumParse(paths) ==
  /\ sum_pc = "load"
  /\ cfg_pc = "returned"
  /\ time_rpt_path' = paths
  /\ IF args.is_debug
       THEN /\ sum_pc' = "done"
            /\ stdout' = [i \in 1..Len(paths) |-> Ln(i - 1, "=== Path", NatStr(i))]
            /\ UNCHANGED <<csv_head, csv_row, csv_table>>
       ELSE /\ sum_pc' = "loop"
            /\ UNCHANGED stdout
            /\ IF args.csv_fp # None
                 THEN /\ csv_head' = CsvHead(args)
                      /\ csv_row' = DictFromKeys(<<>>, CsvHead(args))
                      /\ csv_table' =
                           << [i \in 1..Len(CsvHead(args)) |->
                                 StrV(Upper(CsvHead(args)[i]))] >>
                 ELSE UNCHANGED <<csv_head, csv_row, csv_table>>
  /\ UNCHANGED <<args, pid, sum_err, ckc_calls, seg_calls, csv_file,
                 bar_dtype, db>>
  /\ UNCHANGED not_sum_vars

\* one iteration of `for pid, path in enumerate(time_rpt.path)`
SumPath ==
  /\ sum_pc = "loop"
  /\ pid < Len(time_rpt_path)
  /\ LET path == time_rpt_path[pid + 1]
     IN  IF path.spin = None
           THEN \* line 187: path.lpath[None]
                /\ sum_pc' = "error"
                /\ sum_err' = "TypeError"
                /\ UNCHANGED <<pid, stdout, ckc_calls, seg_calls, csv_row,
                               csv_table>>
           ELSE LET ckc == CkcCond(args, cons_cfg, path)
                    mode == SegMode(args, cons_cfg)
                    row == CsvFill(cons_cfg, path, csv_row)
                IN  /\ \E v \in CkcVerdicts :
                         stdout' = stdout \o HeadLines(pid, path)
                                   \o LevelLines(pid, cons_cfg, path)
                                   \o SkewLines(pid, cons_cfg, path)
                                   \o (IF ckc
                                         THEN CkcLines(pid, path, v,
                                                       SccCheck(path))
                                         ELSE <<>>)
                                   \o MaxDlyLines(pid, path)
                                   \o SegLines(pid, args, cons_cfg)
                    /\ ckc_calls' =
                         (IF ckc
                            THEN Append(ckc_calls,
                                        [pid |-> pid,
                                         is_dump |-> args.ckc_dump])
                            ELSE ckc_calls)
                    /\ seg_calls' =
                         (IF mode \in {"segment", "slat"}
                            THEN Append(seg_calls, pid)
                            ELSE seg_calls)
                    /\ IF mode = "TypeError"
                         THEN \* line 381: 'slat' in None
                              /\ sum_pc' = "error"
                              /\ sum_err' = "TypeError"
                              /\ UNCHANGED <<pid, csv_row, csv_table>>
                       ELSE IF args.csv_fp # None /\ CsvKeyError(csv_row)
                         THEN \* line 404: path.__dict__[key]
                              /\ sum_pc' = "error"
                              /\ sum_err' = "KeyError"
                              /\ UNCHANGED <<pid, csv_row, csv_table>>
                       ELSE /\ pid' = pid + 1
                            /\ UNCHANGED <<sum_pc, sum_err>>
                            /\ IF args.csv_fp # None
                                 THEN /\ csv_row' = row
                                      /\ csv_table' =
                                           Append(csv_table, DictValues(row))
                                 ELSE UNCHANGED <<csv_row, csv_table>>
  /\ UNCHANGED <<args, time_rpt_path, csv_head, csv_file, bar_dtype, db>>
  /\ UNCHANGED not_sum_vars

\* ---- the bar chart: the tail of report_summary and show_time_bar

\* the data types and the path types of the chart
DT == [p |-> <<"p">>, c |-> <<"c">>, t |-> <<"t">>, d |-> <<"d">>,
       i |-> <<"i">>, ct |-> <<"c","t">>]
PT == [f |-> <<"f">>, d |-> <<"d">>, l |-> <<"l">>, c |-> <<"c">>]

SeqSet(s) == {s[i] : i \in 1..Len(s)}

\* lines 416-421: -bars names a set of cons_cfg['bds']
BarSetFound(a, cfg) ==
  Len(cfg["bds"]) # 0 /\ DictHas(cfg["bds"], a.bar_set[1])

\* lines 415-426: bar_dtype as handed to show_time_bar
BarDtype(a, cfg) ==
  LET from_set == IF a.bar_set # None /\ BarSetFound(a, cfg)
                    THEN SeqSet(DictGet(cfg["bds"], a.bar_set[1]))
                    ELSE {}
      from_arg == IF a.bar_dtype = None THEN {}
                  ELSE IF a.bar_dtype[1] # <<>> THEN SeqSet(a.bar_dtype[1])
                  ELSE {DT.p, DT.c, DT.t, DT.d, DT.i, DT.ct}
      both == from_set \cup from_arg
  IN  IF DT.ct \in both THEN both \cup {DT.i} ELSE both

\* lines 429-434: bar_ptype as handed to show_time_bar
BarPtype(a) ==
  IF a.bar_ptype = None \/ a.bar_ptype[1] = <<>> THEN {PT.f, PT.d}
  ELSE IF PT.f \in SeqSet(a.bar_ptype[1])
    THEN SeqSet(a.bar_ptype[1]) \cup {PT.d}
  ELSE SeqSet(a.bar_ptype[1])

\* lines 502-504: the warning of a cell with a negative driving-cell id
DrvWarn(c) == [pid |-> -1, label |-> "WARNING: Unknown driving cell.",
               text |-> c.cell \o <<",">> \o NatStr(c.ln)]

\* lines 500-513: the loop over path.lpath that fills the driving-cell
\* series; ddata is None after the break at the startpoint
RECURSIVE DcWalk(_, _, _, _, _, _)
DcWalk(path, ptype, k, data, series, warns) ==
  IF k >= Len(path.lpath)
    THEN [series |-> series, warns |-> warns, ddata |-> Some(data)]
  ELSE
    LET c == path.lpath[k + 1]
        data1 == Append(data, c.drv)
        warns1 == IF c.drv < 0 THEN Append(warns, DrvWarn(c)) ELSE warns
    IN  IF path.spin = Some(k)
          THEN LET series1 == IF PT.l \in ptype
                                THEN Append(series,
                                            <<"Launch Cell Type", data1>>)
                                ELSE series
               IN  IF PT.d \notin ptype
                     THEN [series |-> series1, warns |-> warns1,
                           ddata |-> None]
                     ELSE DcWalk(path, ptype, k + 1,
                                 IF PT.f \notin ptype
                                   THEN <<data1[Len(data1)]>>
                                   ELSE data1,
                                 series1, warns1)
          ELSE DcWalk(path, ptype, k + 1, data1, series, warns1)

\* the launch loop alone
DcSeriesLaunchOnly(path, ptype) ==
  [db |-> DcWalk(path, ptype, 0, <<>>, <<>>, <<>>).series,
   warns |-> DcWalk(path, ptype, 0, <<>>, <<>>, <<>>).warns]

\* lines 516-530: the capture series, then the data series
DcSeries(path, ptype) ==
  LET w == DcWalk(path, ptype, 0, <<>>, <<>>, <<>>)
      cdata == [i \in 1..Len(path.cpath) |-> path.cpath[i].drv]
      cneg == SelectSeq(path.cpath, LAMBDA c : c.drv < 0)
      cwarn == [i \in 1..Len(cneg) |-> DrvWarn(cneg[i])]
      withc == IF PT.c \in ptype
                 THEN Append(w.series, <<"Capture Cell Type", cdata>>)
                 ELSE w.series
  IN  [db |-> IF w.ddata # None
                THEN Append(withc, <<"Path Cell Type", w.ddata[1]>>)
                ELSE withc,
       warns |-> IF PT.c \in ptype THEN w.warns \o cwarn ELSE w.warns]

\* show_time_bar up to the series database, for a report whose options
\* (path_opt) hold none of cap, phy, tran, delta and incr: those data types
\* are discarded (line 494) and only the cell-type chart can be drawn
ShowTimeBar(path, cfg, dtype, ptype) ==
  LET kept == dtype \ {DT.c, DT.p, DT.t, DT.d, DT.i}
      is_dc == DT.ct \in kept /\ Len(cfg["dc"]) > 0
  IN  IF is_dc
        THEN [db |-> DcSeries(path, ptype).db,
              warns |-> DcSeries(path, ptype).warns, dtype |-> kept]
        ELSE [db |-> <<>>, warns |-> <<>>, dtype |-> kept]

\* the loop is over: the csv is written, the chart is drawn and the
\* function returns
SumExport ==
  /\ sum_pc = "loop"
  /\ pid = Len(time_rpt_path)
  /\ csv_file' =
       (IF args.csv_fp # None
          THEN Some([i \in 1..Len(csv_table) |-> CsvLine(csv_table[i])])
          ELSE csv_file)
  /\ LET missing == args.bar_set # None /\ ~BarSetFound(args, cons_cfg)
         note == IF missing
                   THEN << Ln(-1, "[WARNING] The -bars option cannot find",
                              args.bar_set[1]) >>
                   ELSE <<>>
         dtype == BarDtype(args, cons_cfg)
         chart == ShowTimeBar(PyIndex(time_rpt_path, -1), cons_cfg, dtype,
                              BarPtype(args))
     IN  IF dtype # {}
           THEN /\ stdout' = stdout \o note \o chart.warns
                /\ bar_dtype' = chart.dtype
                /\ db' = chart.db
           ELSE /\ stdout' = stdout \o note
                /\ UNCHANGED <<bar_dtype, db>>
  /\ sum_pc' = "done"
  /\ UNCHANGED <<args, time_rpt_path, pid, sum_err, ckc_calls,
                 seg_calls, csv_head, csv_row, csv_table>>
  /\ UNCHANGED not_sum_vars

\* the runs that draw the chart: rules files and command lines
ChartLines == {RuleLine.dpc_Z, RuleLine.bds_ct, RuleLine.dc_r, RuleLine.pc_A}

ChartArgs ==
  { [NoArgs EXCEPT !.bar_set = Some(<<"s","9">>)],
    [NoArgs EXCEPT !.bar_set = Some(<<"s","9">>), !.bar_dtype = Some(<<DT.ct>>),
                   !.csv_fp = Some(F_csv), !.csv_ctype = Some(<<Col.skew>>)],
    [NoArgs EXCEPT !.bar_set = Some(<<"s","2">>)],
    [NoArgs EXCEPT !.bar_dtype = Some(<<>>),
                   !.bar_ptype = Some(<<PT.l, PT.c>>)],
    [NoArgs EXCEPT !.bar_dtype = Some(<<DT.ct>>), !.bar_ptype = Some(<<PT.d>>)],
    [NoArgs EXCEPT !.bar_dtype = Some(<<DT.ct>>), !.bar_ptype = Some(<<PT.c>>)],
    [NoArgs EXCEPT !.bar_dtype = Some(<<DT.ct>>), !.bar_ptype = Some(<<PT.f>>)],
    [NoArgs EXCEPT !.bar_dtype = Some(<<DT.p>>)] }

PathLists ==
  UNION { [1..n -> PathSet] : n \in 1..MaxPaths }

NextSum ==
  \/ LoadNoFile
  \/ LoadOpen
  \/ \E raw \in SumLines : ReadLine(raw, MaxSumLines)
  \/ LoadReturn
  \/ \E paths \in PathLists : SumParse(paths)
  \/ SumPath
  \/ SumExport

NextChart ==
  \/ LoadNoFile
  \/ LoadOpen
  \/ \E raw \in ChartLines : ReadLine(raw, MaxSumLines)
  \/ LoadReturn
  \/ \E paths \in PathLists : SumParse(paths)
  \/ SumPath
  \/ SumExport

-----------------------------------------------------------------------------
(* main: the -r argument becomes the list of scan ranges                   *)

\* the characters of the -r arguments tried, and the longest argument
RangeChars == {"0", "6", ":", "+", ",", "x"}
MaxRangeLen == 5

\* the -r arguments: absent, or a text of at most MaxRangeLen characters
RangeArgs ==
  {None} \cup {Some(t) : t \in UNION {[1..n -> RangeChars] : n \in 0..MaxRangeLen}}

\* \d+ from position i of s: the position after the longest run of digits
RECURSIVE DigitRun(_, _)
DigitRun(s, i) ==
  IF i <= Len(s) /\ s[i] \in Digits THEN DigitRun(s, i + 1) ELSE i

\* int(text) of a text of decimal digits
RECURSIVE PyInt(_)
PyInt(t) ==
  IF t = <<>> THEN 0
  ELSE PyInt(SubSeq(t, 1, Len(t) - 1)) * 10
         + (CHOOSE d \in 0..9 : DigitChars[d + 1] = t[Len(t)])

\* (variant: range_re.match, a match of the head of s)
RangeMatchHead(s) ==
  LET a == DigitRun(s, 1)
  IN  IF a > 1
        THEN Some([st |-> SubSeq(s, 1, a - 1), ed |-> None, nu |-> None])
        ELSE None

\* range_re.fullmatch(s) for (?P<st>\d+)(?::(?P<ed>\d+))?(?:\+(?P<nu>\d+))?
\* None when s does not match, else the groups (None: took no part)
RangeMatch(s) ==
  LET a == DigitRun(s, 1)
      has_ed == a <= Len(s) /\ s[a] = ":" /\ DigitRun(s, a + 1) > a + 1
      b == IF has_ed THEN DigitRun(s, a + 1) ELSE a
      has_nu == b <= Len(s) /\ s[b] = "+" /\ DigitRun(s, b + 1) > b + 1
      c == IF has_nu THEN DigitRun(s, b + 1) ELSE b
  IN  IF a > 1 /\ c = Len(s) + 1
        THEN Some([st |-> SubSeq(s, 1, a - 1),
                   ed |-> IF has_ed THEN Some(SubSeq(s, a + 1, b - 1))
                                    ELSE None,
                   nu |-> IF has_nu THEN Some(SubSeq(s, b + 1, c - 1))
                                    ELSE None])
        ELSE None

MainIdle ==
  arg_range = None /\ todo = <<>> /\ range_list = <<>> /\ main_pc = "idle"

\* lines 962-965: range_list = []; the argument is split at the commas
MainSplit ==
  /\ main_pc = "start"
  /\ todo' = (IF arg_range = None THEN <<>> ELSE Split(arg_range[1], ","))
  /\ main_pc' = "loop"
  /\ UNCHANGED <<arg_range, range_list>>
  /\ UNCHANGED not_main_vars

\* lines 965-970: one element of the split
MainRange ==
  /\ main_pc = "loop"
  /\ todo # <<>>
  /\ LET m == RangeMatch(Head(todo))
     IN  range_list' =
           (IF m # None
              THEN Append(range_list,
                          << PyInt(m[1].st),
                             IF m[1].ed = None THEN None
                                               ELSE Some(PyInt(m[1].ed[1])),
                             IF m[1].nu = None THEN None
                                               ELSE Some(PyInt(m[1].nu[1])) >>)
              ELSE range_list)
  /\ todo' = Tail(todo)
  /\ UNCHANGED <<arg_range, main_pc>>
  /\ UNCHANGED not_main_vars

\* lines 971-975: the default range, then report_summary(args, range_list)
MainCall ==
  /\ main_pc = "loop"
  /\ todo = <<>>
  /\ range_list' = (IF range_list = <<>> THEN << <<0, None, Some(1)>> >>
                                         ELSE range_list)
  /\ main_pc' = "done"
  /\ UNCHANGED <<arg_range, todo>>
  /\ UNCHANGED not_main_vars

NextMain ==
  \/ MainSplit
  \/ MainRange
  \/ MainCall

-----------------------------------------------------------------------------
(* utils/common.py: str2int                                                *)

\* the chart window is not open
KeyIdle == pt_anno_list = <<>> /\ event = [type |-> "", name |-> ""]

StrIdle ==
  str_ = <<>> /\ is_signed = FALSE /\ bits = 0 /\ num = 0 /\ str_pc = "idle"

\* int(text, base) for base 10 and 16: blanks around the literal, a sign,
\* for base 16 a 0x or 0X prefix, then digits of the base; None is
\* ValueError (underscores between digits are not modelled)
PyIntBase(text, base) ==
  LET t == Strip(text)
      signed == t # <<>> /\ t[1] \in {"+", "-"}
      u == IF signed THEN Tail(t) ELSE t
      prefixed == base = 16 /\ Len(u) >= 2 /\ u[1] = "0" /\ u[2] \in {"x", "X"}
      digs == Lower(IF prefixed THEN SubSeq(u, 3, Len(u)) ELSE u)
      hex == <<"0","1","2","3","4","5","6","7","8","9",
               "a","b","c","d","e","f">>
      valid(c) == \E d \in 1..base : hex[d] = c
      val(c) == (CHOOSE d \in 1..base : hex[d] = c) - 1
      RECURSIVE value(_, _)
      value(ds, acc) ==
        IF ds = <<>> THEN acc ELSE value(Tail(ds), acc * base + val(Head(ds)))
  IN  IF digs # <<>> /\ \A i \in 1..Len(digs) : valid(digs[i])
        THEN Some(IF t[1] = "-" THEN -value(digs, 0) ELSE value(digs, 0))
        ELSE None

\* a | b on Python integers (two's complement, unbounded)
RECURSIVE BitOr(_, _)
BitOr(a, b) ==
  IF a = 0 THEN b
  ELSE IF b = 0 THEN a
  ELSE IF a = -1 \/ b = -1 THEN -1
  ELSE 2 * BitOr(a \div 2, b \div 2)
         + (IF a % 2 = 1 \/ b % 2 = 1 THEN 1 ELSE 0)

\* (variant: the hexadecimal value handed back without the sign extension)
str2intNoSign(s, sgn, w) ==
  LET is_hex == Len(s) >= 2 /\ SubSeq(s, 1, 2) \in {<<"0","x">>, <<"0","X">>}
      v == PyIntBase(s, IF is_hex THEN 16 ELSE 10)
      top == IF sgn /\ ~is_hex THEN 2 ^ (w - 1) ELSE 2 ^ w
  IN  IF v = None \/ (v # None /\ (v[1] >= top \/ v[1] < -top))
           \/ (v # None /\ ~sgn /\ v[1] < 0)
        THEN [raised |-> TRUE, num |-> 0]
        ELSE [raised |-> FALSE, num |-> v[1]]

\* str2int(str_, is_signed, bits), for bits >= 1: the value returned, or
\* raised when ValueError is raised
str2int(s, sgn, w) ==
  LET err == [raised |-> TRUE, num |-> 0]
      ret(n) == [raised |-> FALSE, num |-> n]
      is_hex == Len(s) >= 2 /\ SubSeq(s, 1, 2) \in {<<"0","x">>, <<"0","X">>}
  IN  IF is_hex
        THEN LET h == PyIntBase(s, 16)
             IN  IF h = None THEN err
                 ELSE IF h[1] \div (2 ^ w) # 0 THEN err
                 ELSE IF sgn
                   THEN LET sign == h[1] \div (2 ^ (w - 1))
                        IN  ret(BitOr(h[1], -((sign * (2 ^ w)) - 1) - 1))
                 ELSE ret(h[1])
        ELSE LET d == PyIntBase(s, 10)
                 b == IF sgn THEN w - 1 ELSE w
                 abs(n) == IF n < 0 THEN -n ELSE n
             IN  IF d = None THEN err
                 ELSE IF ~sgn /\ d[1] < 0 THEN err
                 ELSE IF d[1] > 0 /\ abs(d[1]) >= 2 ^ b THEN err
                 ELSE IF d[1] < 0 /\ abs(d[1]) > 2 ^ b THEN err
                 ELSE ret(d[1])

\* bounds: the largest magnitude written out and the largest bit width
MaxNum == 18
MaxBits == 4

\* the texts converted: the decimal and the hexadecimal spelling of the
\* numbers up to MaxNum, and texts that spell no number
Str2IntTexts ==
  LET hexs == <<"0","1","2","3","4","5","6","7","8","9",
                "a","b","c","d","e","f">>
      hx(n) == IF n < 16 THEN <<hexs[n + 1]>>
               ELSE <<hexs[(n \div 16) + 1], hexs[(n % 16) + 1]>>
  IN  {NatStr(n) : n \in 0..MaxNum}
        \cup {<<"-">> \o NatStr(n) : n \in 0..MaxNum}
        \cup {<<"0", "x">> \o hx(n) : n \in 0..MaxNum}
        \cup {<<"0", "X">> \o Upper(hx(n)) : n \in 0..MaxNum}
        \cup { <<>>, <<"0","x">>, <<"a","b","c">>, <<"-","0","x","1">>,
               <<"0","x","-","1">>, <<"1","f">>, <<"+","5">>, <<"-">>,
               <<"0","0","7">>, <<" ","5">>, <<"0","x","0","f">>,
               <<"0","x","1","g">>, <<"-","-","1">> }

\* str2int is called
InitStr ==
  /\ str_ \in Str2IntTexts /\ is_signed \in BOOLEAN /\ bits \in 1..MaxBits
  /\ num = 0 /\ str_pc = "call"
  /\ CfgIdle /\ BarIdle /\ SumIdle /\ MainIdle /\ KeyIdle

\* the body of str2int, lines 20-38
CallStr2Int ==
  /\ str_pc = "call"
  /\ LET r == str2int(str_, is_signed, bits)
     IN  /\ str_pc' = (IF r.raised THEN "ValueError" ELSE "return")
         /\ num' = r.num
  /\ UNCHANGED <<str_, is_signed, bits>>
  /\ UNCHANGED not_str_vars

-----------------------------------------------------------------------------
(* show_time_bar: the bubbles of the bars, on_key and on_mouse             *)
(* Offsets are in tenths: x = -5 is -0.5 and dy_rt = 5 is the ratio 0.5.   *)
(* Within MaxShift steps of the default each offset has one float value,   *)
(* so the tenths compare as the floats do.                                 *)

Word ==
  [
    pin |-> <<"p","i","n",":"," ">>,
    lib |-> <<"l","i","b",":"," ">>,
    val |-> <<"v","a","l",":"," ">>,
    ln |-> <<"l","n",":"," ">>,
    dots |-> <<".",".",".">>,
    nl |-> <<"\n">>
  ]

\* lines 714-719: the pin name cut to its last plv levels
PinName(name, plv) ==
  LET toks == Split(name, "/")
      n == IF plv > 0 THEN plv ELSE 0
      kept == SubSeq(toks, Len(toks) - n + 1, Len(toks))
  IN  IF Len(toks) > plv
        THEN Word.dots \o (IF n = 0 THEN <<>> ELSE <<"/">> \o Join(kept, <<"/">>))
        ELSE name

\* lines 600-637: the bubble of one bar, hidden, at the default offsets
Bubble(ce, is_ct_proc, iy, min_dy, dy_off) ==
  LET toks == Split(ce.name, "/")
      name == IF Len(toks) > 2
                THEN Word.dots \o <<"/">> \o toks[Len(toks) - 1]
                       \o <<"/">> \o toks[Len(toks)]
                ELSE ce.name
      val == IF is_ct_proc
               THEN Word.lib \o ce.cell
               ELSE Word.val \o (IF iy < 0 THEN <<"-">> ELSE <<>>)
                      \o NatStr(Abs(iy) \div Unit) \o <<".">>
                      \o Frac4(Abs(iy) % Unit)
  IN  [x |-> -5, y |-> 10 * min_dy + dy_off * 5,
       text |-> Word.pin \o name \o Word.nl \o val \o Word.nl
                  \o Word.ln \o NatStr(ce.ln),
       visible |-> FALSE,
       info |-> [dx |-> -5, min_dy |-> min_dy, dy_off |-> dy_off, dy_rt |-> 5,
                 ce |-> ce, plv |-> 2, ct |-> is_ct_proc]]

\* lines 865-877; the shifts of 'UD' and 'LR' are in tenths
key_event_check(action) ==
  CASE action = "escape" -> <<"ESC", 0>>
    [] action = "up" -> <<"UD", 1>>
    [] action = "down" -> <<"UD", -1>>
    [] action = "left" -> <<"LR", -5>>
    [] action = "right" -> <<"LR", 5>>
    [] action = "a" -> <<"PM", 1>>
    [] action = "d" -> <<"PM", -1>>
    [] action = "1" -> <<"BT", 1>>
    [] action = "2" -> <<"BT", 2>>
    [] action = "r" -> <<"RESET", 0>>
    [] OTHER -> <<"NONE", 0>>

\* lines 736-747 with the test of line 736 left out
ResetBubbleAlways(b) ==
  LET toks == Split(b.text, "\n")
  IN  [b EXCEPT !.info.plv = 2,
                !.text = Word.pin \o PinName(b.info.ce.name, 2) \o Word.nl
                           \o toks[Len(toks) - 1] \o Word.nl \o toks[Len(toks)],
                !.info.dy_rt = 5, !.x = -5,
                !.y = 10 * b.info.min_dy + b.info.dy_off * 5]

\* lines 736-747: 'RESET' on one bubble
ResetBubble(b) ==
  LET toks == Split(b.text, "\n")
      at_default == b.x = -5 /\ b.info.dy_rt = 5
      c == IF at_default
             THEN [b EXCEPT !.info.plv = 2,
                            !.text = Word.pin \o PinName(b.info.ce.name, 2)
                                       \o Word.nl \o toks[Len(toks) - 1]
                                       \o Word.nl \o toks[Len(toks)]]
             ELSE b
  IN  [c EXCEPT !.info.dy_rt = 5, !.x = -5,
                !.y = 10 * b.info.min_dy + b.info.dy_off * 5]

\* lines 689-748: on_key on the bubbles of every chart
on_key(list, action) ==
  LET ev_key == key_event_check(action)[1]
      val == key_event_check(action)[2]
      Ud(b) == LET rt == b.info.dy_rt + val
               IN  [b EXCEPT !.info.dy_rt = rt,
                             !.y = 10 * b.info.min_dy + b.info.dy_off * rt]
      Pm(b) == LET plv == b.info.plv + val
                   toks == Split(b.text, "\n")
               IN  [b EXCEPT !.info.plv = plv,
                             !.text = Word.pin \o PinName(b.info.ce.name, plv)
                                        \o Word.nl \o toks[Len(toks) - 1]
                                        \o Word.nl \o toks[Len(toks)]]
      Bt(b) == LET toks == Split(b.text, "\n")
                   head == IF val = 2 /\ b.info.ct = FALSE
                             THEN toks[1] \o Word.nl \o Word.lib \o b.info.ce.cell
                             ELSE toks[1]
               IN  [b EXCEPT !.text = head \o Word.nl \o toks[Len(toks) - 1]
                                        \o Word.nl \o toks[Len(toks)]]
      New(b) == CASE ev_key = "ESC" -> [b EXCEPT !.visible = FALSE]
                  [] ev_key = "UD" -> Ud(b)
                  [] ev_key = "LR" -> [b EXCEPT !.x = b.x + val]
                  [] ev_key = "PM" -> Pm(b)
                  [] ev_key = "BT" -> Bt(b)
                  [] ev_key = "RESET" -> ResetBubble(b)
                  [] OTHER -> b
  IN  [i \in 1..Len(list) |-> [j \in 1..Len(list[i]) |-> New(list[i][j])]]

\* lines 670-687: on_mouse; hit is the bars of chart ax (an index of pt_anno_list) that contain the event
on_mouse(list, button, ax, hit) ==
  LET Vis(i, j) ==
        IF button \in {"MouseButton.LEFT", "1"}
          THEN IF i = ax /\ hit # {} THEN j \in hit ELSE list[i][j].visible
          ELSE IF button \in {"MouseButton.RIGHT", "3"} THEN FALSE
          ELSE list[i][j].visible
  IN  [i \in 1..Len(list) |->
        [j \in 1..Len(list[i]) |-> [list[i][j] EXCEPT !.visible = Vis(i, j)]]]

MaxShift == 1
MaxPlv == 3

\* two charts as show_time_bar leaves them: a delay chart of two bars and a
\* cell type chart of one
InitKey ==
  /\ pt_anno_list =
       << << Bubble(Pin(<<"t","o","p","/","u","1","/","u","2","/","Q">>,
                        <<"D","F","F">>, 1, 11), FALSE, 12500, 0, 2),
             Bubble(Pin(<<"u","1","/","D">>, <<"B","U","F">>, 2, 12),
                    FALSE, 20000, 0, 2) >>,
          << Bubble(Pin(<<"t","o","p","/","u","3","/","C","K">>,
                        <<"C","K","B","U","F">>, 0, 10), TRUE, 10000, 0, 4) >> >>
  /\ event = [type |-> "", name |-> ""]
  /\ CfgIdle /\ BarIdle /\ SumIdle /\ MainIdle /\ StrIdle

\* a key is pressed in the chart window: one of the ten of key_event_check
\* or one of two it does not know
OnKey ==
  /\ pt_anno_list # <<>>
  /\ \E action \in {"escape", "up", "down", "left", "right", "a", "d",
                     "1", "2", "r", "R", "x"} :
       LET list == on_key(pt_anno_list, action)
       IN  /\ \A i \in 1..Len(list) : \A j \in 1..Len(list[i]) :
                /\ Abs(list[i][j].x + 5) <= 5 * MaxShift
                /\ Abs(list[i][j].info.dy_rt - 5) <= MaxShift
                /\ list[i][j].info.plv \in 0..MaxPlv
           /\ pt_anno_list' = list
           /\ event' = [type |-> "key_press_event", name |-> action]
  /\ UNCHANGED not_key_vars

\* a mouse button is pressed in the chart window, on one bar or on none
OnMouse ==
  /\ pt_anno_list # <<>>
  /\ \E button \in {"MouseButton.LEFT", "MouseButton.RIGHT", "MouseButton.MIDDLE"} :
     \E ax \in 1..Len(pt_anno_list) :
     \E hit \in {{}} \cup {{j} : j \in 1..Len(pt_anno_list[ax])} :
       /\ pt_anno_list' = on_mouse(pt_anno_list, button, ax, hit)
       /\ event' = [type |-> "button_press_event", name |-> button]
  /\ UNCHANGED not_key_vars

NextKey ==
  \/ OnKey
  \/ OnMouse

-----------------------------------------------------------------------------
(* main, then report_summary: the scan ranges select the paths             *)

\* the report of the runs that scan ranges: its path blocks in text order,
\* each with the report lines it begins and ends at
Report ==
  << [begin |-> 8, end |-> 22, path |-> Path_reg],
     [begin |-> 30, end |-> 48, path |-> Path_neg],
     [begin |-> 50, end |-> 70, path |-> Path_fork],
     [begin |-> 72, end |-> 80, path |-> Path_maxdly],
     [begin |-> 90, end |-> 99, path |-> Path_in] >>

\* time_rpt.parse_report(args.rpt_fp, range_list): one forward scan per
\* range, the ranges in the order given; a range [st, ed, nu] takes the
\* paths that begin at or after line st and do not extend past line ed, in
\* text order, and stops after nu paths
RECURSIVE ParseReport(_, _)
ParseReport(report, ranges) ==
  IF ranges = <<>> THEN <<>>
  ELSE LET r == Head(ranges)
           fits(b) == /\ b.begin >= r[1]
                      /\ r[2] # None => b.end <= r[2][1]
           found == SelectSeq(report, fits)
           taken == IF r[3] # None /\ r[3][1] < Len(found)
                      THEN SubSeq(found, 1, r[3][1]) ELSE found
       IN  [i \in 1..Len(taken) |-> taken[i].path]
             \o ParseReport(report, Tail(ranges))

\* the -r arguments of these runs
ScanArgs ==
  { None,
    Some(<<"6", ":", "1", "6", ",", "2", "6", "+", "2">>),
    Some(<<"6", ":", "2", "4", ",", "2", "6", "+", "2">>),
    Some(<<"2", "6", "+", "2", ",", "6", ":", "2", "4">>),
    Some(<<"6", ":", "4", "8">>),
    Some(<<"6", ":", "4", "7">>),
    Some(<<"0", "+", "1">>),
    Some(<<"9">>),
    Some(<<"6", ":", "4", "8", ",", "6", ":", "2", "4">>),
    Some(<<"x">>),
    Some(<<"3", "0", ":", "9", "9", "+", "1">>) }

\* main is entered with a command line; report_summary has not been called
InitScan ==
  /\ arg_range \in ScanArgs /\ todo = <<>> /\ range_list = <<>>
  /\ main_pc = "start"
  /\ InitCfg /\ BarIdle /\ KeyIdle /\ StrIdle
  /\ args \in {NoArgs, [NoArgs EXCEPT !.ckc_en = TRUE]}
  /\ time_rpt_path = <<>> /\ pid = 0
  /\ sum_pc = "load" /\ sum_err = "" /\ stdout = <<>>
  /\ ckc_calls = <<>> /\ seg_calls = <<>>
  /\ csv_head = <<>> /\ csv_row = <<>> /\ csv_table = <<>> /\ csv_file = None
  /\ bar_dtype = {} /\ db = <<>>

\* lines 962-975 of main, then report_summary(args, range_list)
NextScan ==
  \/ MainSplit
  \/ MainRange
  \/ MainCall
  \/ main_pc = "done" /\ LoadNoFile
  \/ main_pc = "done" /\ LoadOpen
  \/ \E raw \in {RuleLine.comment, RuleLine.ckc_true} :
       ReadLine(raw, MaxSumLines)
  \/ LoadReturn
  \/ SumParse(ParseReport(Report, range_list))
  \/ SumPath
  \/ SumExport

-----------------------------------------------------------------------------
(* Specifications: one per function, the state of the others held idle     *)

InitLoad == InitCfg /\ BarIdle /\ SumIdle /\ MainIdle /\ KeyIdle /\ StrIdle

InitBar ==
  /\ \E call \in Calls :
       /\ aid = call.aid
       /\ default_tag = call.default_tag
       /\ seg_dict = call.seg_dict
  /\ type_ \in {"l", "c", "d"}
  /\ has_f \in BOOLEAN
  /\ spin \in SpinChoices
  /\ (type_ # "d" => (~has_f /\ spin = 0))
  /\ init_tag = None /\ tag = None /\ cid = -1 /\ cell = <<>>
  /\ lv_ce_path = <<>> /\ lv_key_path = <<>> /\ lv_c_path = <<>>
  /\ lv_ha_path = <<>> /\ bar_lg_path = <<>>
  /\ bar_pc = "start"
  /\ CfgIdle /\ SumIdle /\ MainIdle /\ KeyIdle /\ StrIdle

\* report_summary(args, range_list) is entered: load_times_cfg is next
InitSum ==
  /\ args \in ArgsSet /\ time_rpt_path = <<>> /\ pid = 0
  /\ sum_pc = "load" /\ sum_err = "" /\ stdout = <<>>
  /\ ckc_calls = <<>> /\ seg_calls = <<>>
  /\ csv_head = <<>> /\ csv_row = <<>> /\ csv_table = <<>> /\ csv_file = None
  /\ bar_dtype = {} /\ db = <<>>
  /\ InitCfg /\ BarIdle /\ MainIdle /\ KeyIdle /\ StrIdle

InitChart ==
  /\ args \in ChartArgs /\ time_rpt_path = <<>> /\ pid = 0
  /\ sum_pc = "load" /\ sum_err = "" /\ stdout = <<>>
  /\ ckc_calls = <<>> /\ seg_calls = <<>>
  /\ csv_head = <<>> /\ csv_row = <<>> /\ csv_table = <<>> /\ csv_file = None
  /\ bar_dtype = {} /\ db = <<>>
  /\ InitCfg /\ BarIdle /\ MainIdle /\ KeyIdle /\ StrIdle

\* after parser.parse_args()
InitMain ==
  /\ arg_range \in RangeArgs /\ todo = <<>> /\ range_list = <<>>
  /\ main_pc = "start"
  /\ CfgIdle /\ BarIdle /\ SumIdle /\ KeyIdle /\ StrIdle

Spec == InitLoad /\ [][NextGeneral]_vars
SpecTag == InitLoad /\ [][NextTag]_vars
SpecCkp == InitLoad /\ [][NextCkp]_vars
SpecToggle == InitLoad /\ [][NextToggle]_vars
SpecTable == InitLoad /\ [][NextTable]_vars
SpecBar == InitBar /\ [][NextBar]_vars
SpecSum == InitSum /\ [][NextSum]_vars
SpecChart == InitChart /\ [][NextChart]_vars
SpecMain == InitMain /\ [][NextMain]_vars
SpecScan == InitScan /\ [][NextScan]_vars
SpecStr == InitStr /\ [][CallStr2Int]_vars

SpecKey == InitKey /\ [][NextKey]_vars

-----------------------------------------------------------------------------
(* Properties of load_times_cfg                                            *)

\* the spellings of the two booleans among the values tried
SaysTrue == { <<"t","r","u","e">>, <<"T","r","u","e">> }
SaysFalse == { <<"f","a","l","s","e">>, <<"F","A","L","S","E">> }

\* what a toggle with default d becomes on value v: the opposite of d exactly
\* when v spells the opposite of d, in any case; d otherwise
ToggleExpected(d, v) ==
  IF d THEN ~(v \in SaysFalse) ELSE v \in SaysTrue

\* C1: for each of the seventeen toggle keys with default d, after a line
\* `key: value` the effective value is `not d` if and only if the value,
\* compared case-insensitively, is the string form of `not d`; the string form
\* of d and any other word yield d.  (The line read last is the line that
\* decides, also with blanks around the value and a trailing comment.)
C1_ToggleOnOpposite ==
  /\ \A i \in 1..Len(attr) : \A v \in ToggleValues \cup OtherValues :
       (cfg_pc \in {"read", "returned"} /\ file # <<>>
          /\ line = ToggleLine(attr[i].key, v))
         => cons_cfg[attr[i].name] = ToggleExpected(attr[i].dflt, v)
  /\ (cfg_pc \in {"read", "returned"} /\ file # <<>> /\ line = RuleLine.slk_off)
       => cons_cfg["slk_on_rpt"] = FALSE

\* C1 witness: a false-default key switched on by "True" and then a
\* true-default key switched off by "FALSE"
C1_Witness ==
  /\ cfg_pc = "returned"
  /\ file = << ToggleLine(AttrByName("ckc_en").key, <<"T","r","u","e">>),
               ToggleLine(AttrByName("slk_on_rpt").key, <<"F","A","L","S","E">>) >>
  /\ cons_cfg["ckc_en"] = TRUE
  /\ cons_cfg["slk_on_rpt"] = FALSE

\* the lines of the catalogue whose shape or value a handler cannot take
\* (no colon, two colons, a wrong number of words, an unknown ckt tag or
\* ckp type, a bad regex, a bad number)
BadLines ==
  {RuleLine.ckp_nocolon, RuleLine.ckp_x, RuleLine.ckp_badre, RuleLine.pc_short, RuleLine.pc_colon, RuleLine.ckt_q,
   RuleLine.dc_bad, RuleLine.hcd_short}

FirstBad(f) == CHOOSE i \in 1..Len(f) :
                 f[i] \in BadLines /\ \A j \in 1..(i - 1) : f[j] \notin BadLines

\* C2: when the loader rejects a file, the SyntaxError cites the 1-based
\* physical number of the first malformed line (blank and comment lines
\* before it count), no line after it is read, and a file with a malformed
\* line never yields a configuration.
C2_ErrorCitesBadLine ==
  /\ cfg_pc = "error" =>
       /\ \E i \in 1..Len(file) : file[i] \in BadLines
       /\ err_ln = FirstBad(file)
       /\ Len(file) = err_ln
  /\ cfg_pc = "returned" =>
       /\ \A i \in 1..Len(file) : file[i] \notin BadLines
       /\ err_ln = 0

\* C2 witness: a blank line and a comment line, then `ckp x foo` on line 3
C2_Witness ==
  /\ cfg_pc = "error"
  /\ file = <<RuleLine.blank, RuleLine.comment, RuleLine.ckp_nocolon>>
  /\ err_ln = 3

\* C3: every non-blank, non-comment line with an unknown key or a malformed
\* value makes the loader fail with a syntax error at that line.
C3_UnknownKeyRejected ==
  (cfg_pc # "start" /\ file # <<>> /\ line \in BadLines \cup {RuleLine.unknown})
    => (cfg_pc = "error" /\ err_ln = Len(file))

\* what the lines of TagLines declare
DpcA == \E i \in 1..Len(file) :
          file[i] = RuleLine.dpc_A /\ \A j \in (i + 1)..Len(file) : file[j] # RuleLine.dpc_Z
DpcZ == \E i \in 1..Len(file) :
          file[i] = RuleLine.dpc_Z /\ \A j \in (i + 1)..Len(file) : file[j] # RuleLine.dpc_A
PcDeclaresA == \E i \in 1..Len(file) : file[i] \in {RuleLine.pc_A, RuleLine.pc_A2}

\* C4: a returned configuration has dpc unset or a key of pc; the dpc of the
\* last dpc line is kept exactly when some pc line, before or after it,
\* declares that tag; otherwise it is cleared, the notice is printed and the
\* configuration is returned all the same.
C4_DpcInPc ==
  /\ cfg_pc # "error"
  /\ cfg_pc = "returned" =>
       /\ cons_cfg["dpc"] = None \/ DictHas(cons_cfg["pc"], cons_cfg["dpc"][1])
       /\ cons_cfg["dpc"] = (IF DpcA /\ PcDeclaresA THEN Some(<<"A">>) ELSE None)
       /\ notice = (DpcZ \/ (DpcA /\ ~PcDeclaresA))

\* C4 witness: the dpc line comes before the pc line that declares its tag
C4_Witness ==
  /\ cfg_pc = "returned"
  /\ file = <<RuleLine.dpc_A, RuleLine.pc_B, RuleLine.pc_A>>
  /\ cons_cfg["dpc"] = Some(<<"A">>)
  /\ ~notice

\* what the ckp lines of CkpLines declare: <<type, patterns>>
CkpDecl(l) ==
  IF l = RuleLine.ckp_c THEN <<"c", << <<"C","K","B","U","F">>, <<"C","K","I","N","V">> >> >>
  ELSE IF l = RuleLine.ckp_c2 THEN <<"c", << <<"C","K","M","U","X">> >> >>
  ELSE IF l = RuleLine.ckp_i THEN <<"i", << <<"u","1">> >> >>
  ELSE IF l = RuleLine.ckp_r THEN <<"r", << <<"a",".","*">>, <<"b","1">> >> >>
  ELSE IF l = RuleLine.ckp_r2 THEN <<"r", << <<".","*">> >> >>
  ELSE IF l = RuleLine.ckp_none THEN <<"c", <<>> >>
  ELSE <<"-", <<>> >>

\* the patterns of the lines of type ty among the first n accepted lines
RECURSIVE CkpAll(_, _, _)
CkpAll(f, n, ty) ==
  IF n = 0 THEN <<>>
  ELSE CkpAll(f, n - 1, ty)
         \o (IF CkpDecl(f[n])[1] = ty THEN CkpDecl(f[n])[2] ELSE <<>>)

SeqToSet(s) == {s[i] : i \in 1..Len(s)}

Accepted == IF cfg_pc = "error" THEN Len(file) - 1 ELSE Len(file)

\* C10: each ckp line of type c, i or r adds all its patterns to its own
\* collection and to no other (the two sets and the regex list are exactly
\* what the lines of each type declared, the regexes in declaration order);
\* a ckp line of another type is a syntax error at that line.
C10_CkpOneCollection ==
  /\ cons_cfg["ckpc"] = SeqToSet(CkpAll(file, Accepted, "c"))
  /\ cons_cfg["ckpi"] = SeqToSet(CkpAll(file, Accepted, "i"))
  /\ cons_cfg["ckpr"] = CkpAll(file, Accepted, "r")
  /\ \A i \in 1..Len(file) :
       file[i] = RuleLine.ckp_x => (cfg_pc = "error" /\ err_ln = i /\ Len(file) = i)

\* C10 witness: lines of the three types, the regex lines in two steps
C10_Witness ==
  /\ cfg_pc = "returned"
  /\ file = <<RuleLine.ckp_r, RuleLine.ckp_i, RuleLine.ckp_r2>>
  /\ cons_cfg["ckpr"] = << <<"a",".","*">>, <<"b","1">>, <<".","*">> >>
  /\ cons_cfg["ckpi"] = { <<"u","1">> }
  /\ cons_cfg["ckpc"] = {}

-----------------------------------------------------------------------------
(* Properties of the classification tables and of the sticky-tag walk      *)

\* what the lines of TagLines declare: <<table, tag, pattern>>
TagDecl(l) ==
  IF l = RuleLine.pc_A THEN <<"pc", TagName.A, Pattern.a>>
  ELSE IF l = RuleLine.pc_B THEN <<"pc", TagName.B, Pattern.any>>
  ELSE IF l = RuleLine.pc_A2 THEN <<"pc", TagName.A, Pattern.b>>
  ELSE IF l = RuleLine.cc_A THEN <<"cc", TagName.A, Pattern.a>>
  ELSE IF l = RuleLine.cc_B THEN <<"cc", TagName.B, Pattern.any>>
  ELSE IF l = RuleLine.cc_A2 THEN <<"cc", TagName.A, Pattern.b>>
  ELSE IF l = RuleLine.ckt_y THEN <<"ckt", TRUE, Pattern.a>>
  ELSE IF l = RuleLine.ckt_N THEN <<"ckt", FALSE, Pattern.any>>
  ELSE <<"-", <<>>, <<>> >>

\* the lines of the file that declare a rule of table tbl, in file order
DeclsOf(tbl) ==
  SelectSeq([i \in 1..Len(file) |-> TagDecl(file[i])], LAMBDA d : d[1] = tbl)

\* the names the patterns a.*, b.* and .* are matched against
MatchOf(p, name) ==
  IF p = Pattern.any THEN TRUE
  ELSE IF p = Pattern.a THEN name \in {CellName.a1, CellName.a2, CellName.a3}
  ELSE IF p = Pattern.b THEN name = CellName.b1
  ELSE FALSE

\* the tag of the earliest declaration whose pattern matches the name
EarliestDeclared(decls, name) ==
  LET i == CHOOSE k \in 1..Len(decls) :
             /\ MatchOf(decls[k][3], name)
             /\ \A j \in 1..(k - 1) : ~MatchOf(decls[j][3], name)
  IN  decls[i][2]

\* the pattern in force for the tag of declaration k: that of its last
\* declaration
InForce(decls, k) ==
  LET last == CHOOSE m \in 1..Len(decls) :
                /\ decls[m][2] = decls[k][2]
                /\ \A j \in (m + 1)..Len(decls) : decls[j][2] # decls[k][2]
  IN  decls[last][3]

IsFirstOfTag(decls, k) == \A j \in 1..(k - 1) : decls[j][2] # decls[k][2]

\* the tag declared first among the tags whose pattern in force matches
EarliestTag(decls, name) ==
  LET i == CHOOSE k \in 1..Len(decls) :
             /\ IsFirstOfTag(decls, k)
             /\ MatchOf(InForce(decls, k), name)
             /\ \A j \in 1..(k - 1) :
                  ~(IsFirstOfTag(decls, j) /\ MatchOf(InForce(decls, j), name))
  IN  decls[i][2]

CktInOrder ==
  cons_cfg["ckt"] =
    [i \in 1..Len(DeclsOf("ckt")) |->
       <<DeclsOf("ckt")[i][2], DeclsOf("ckt")[i][3]>>]

\* C5 as stated: whenever two declared patterns match a name, the lookup in
\* pc and in cc yields the tag of the earliest declared matching pattern, for
\* every sequence of lines, a tag declared twice included; ckt keeps
\* declaration order.
C5_EarlierDeclaredWins ==
  cfg_pc = "returned" =>
    /\ CktInOrder
    /\ \A tbl \in {"pc", "cc"} : \A name \in Names :
         (\E k1, k2 \in 1..Len(DeclsOf(tbl)) :
            /\ k1 < k2
            /\ MatchOf(DeclsOf(tbl)[k1][3], name)
            /\ MatchOf(DeclsOf(tbl)[k2][3], name))
           => FindTag(cons_cfg[tbl], None, name)
                = Some(EarliestDeclared(DeclsOf(tbl), name))

\* C5 amended: a tag keeps the place of its first declaration and takes the
\* pattern of its last one; among the tags whose pattern in force matches a
\* name, the lookup yields the tag declared first (so with every tag declared
\* once, the earlier-declared rule wins); ckt keeps declaration order.
C5_FirstTagInForceWins ==
  cfg_pc = "returned" =>
    /\ CktInOrder
    /\ \A tbl \in {"pc", "cc"} : \A name \in Names :
         IF \E k \in 1..Len(DeclsOf(tbl)) :
              MatchOf(InForce(DeclsOf(tbl), k), name)
           THEN FindTag(cons_cfg[tbl], None, name)
                  = Some(EarliestTag(DeclsOf(tbl), name))
           ELSE FindTag(cons_cfg[tbl], None, name) = None

\* C5 witness: two overlapping pc rules (a.* before .*) and the name a1,
\* which both match: the lookup yields A
C5_Witness ==
  /\ cfg_pc = "returned"
  /\ file = <<RuleLine.pc_A, RuleLine.pc_B, RuleLine.ckt_N>>
  /\ FindTag(cons_cfg["pc"], None, CellName.a1) = Some(TagName.A)
  /\ FindTag(cons_cfg["pc"], None, CellName.b1) = Some(TagName.B)

\* a step of the walk that handles one more cell
WalkStep == bar_pc = "walk" /\ bar_pc' = "walk" /\ cid' = cid + 1

TagMatches(tg, name) ==
  \E i \in 1..Len(seg_dict) :
    seg_dict[i][1] = tg[1] /\ MatchOf(seg_dict[i][2], name)

NoPatternMatches(name) ==
  \A i \in 1..Len(seg_dict) : ~MatchOf(seg_dict[i][2], name)

\* the runs of a list of keys: <<key, length>> per maximal run
RECURSIVE RunsOf(_)
RunsOf(ks) ==
  IF ks = <<>> THEN <<>>
  ELSE LET rest == RunsOf(Tail(ks))
       IN  IF rest # <<>> /\ rest[1][1] = Head(ks)
             THEN << <<Head(ks), rest[1][2] + 1>> >> \o Tail(rest)
             ELSE << <<Head(ks), 1>> >> \o rest

FixtureCells == <<CellName.a1, CellName.a2, CellName.b1, CellName.a3>>

\* C6: while the pattern of the current tag full-matches the cell, the table
\* is not searched and the tag stays (also when an earlier rule of the table
\* matches the cell too); and the cells a1,a2,b1,a3 under A -> a.*, B -> b.*
\* with default tag A fall into the runs [a1,a2] A, [b1] B, [a3] A.
C6_StickyTag ==
  [][ /\ (WalkStep /\ tag # None /\ TagMatches(tag, cell')) => tag' = tag
      /\ (WalkStep /\ Len(seg_dict) = 0) => tag' = tag
      /\ (seg_dict' = Table.AB /\ default_tag' = TagName.A
            /\ lv_ce_path' = FixtureCells)
           => /\ lv_key_path' = <<TagName.A, TagName.A, TagName.B, TagName.A>>
              /\ RunsOf(lv_key_path') = << <<TagName.A, 2>>, <<TagName.B, 1>>, <<TagName.A, 1>> >>
    ]_vars

\* C6 witness: the fixture walked to its end, and a cell kept under B although
\* the earlier rule A matches it too
C6_Witness ==
  /\ bar_pc = "done"
  /\ seg_dict = Table.AB
  /\ default_tag = TagName.A
  /\ lv_ce_path = FixtureCells
  /\ RunsOf(lv_key_path) = << <<TagName.A, 2>>, <<TagName.B, 1>>, <<TagName.A, 1>> >>

\* C7 as stated: the tag starts as the configured default tag, or unset when
\* there is none ('TP' and 'UN' stand in for no default; a table that holds
\* such a key is let pass here); a cell whose name matches no pattern of the
\* table leaves the tag as it was before the cell.
C7_UnmatchedKeepsTag ==
  [][ /\ (bar_pc = "start" /\ bar_pc' = "walk")
           => IF default_tag \in {TagName.TP, TagName.UN}
                THEN tag' \in {None, Some(default_tag)}
                ELSE tag' = Some(default_tag)
      /\ (WalkStep /\ Len(seg_dict) # 0 /\ NoPatternMatches(cell'))
           => tag' = tag
    ]_vars

\* C7 amended: the tag starts as init_tag, which is default_tag when that is
\* a key of the table and unset otherwise; a cell whose name matches no
\* pattern of the table sets the tag back to init_tag (the run continues only
\* when the tag was init_tag already); and a tag other than init_tag is only
\* ever taken from a rule whose pattern matches the cell.
C7_UnmatchedResetsTag ==
  [][ /\ (bar_pc = "start" /\ bar_pc' = "walk")
           => /\ init_tag' = (IF DictHas(seg_dict, default_tag)
                                THEN Some(default_tag) ELSE None)
              /\ tag' = init_tag'
      /\ (WalkStep /\ Len(seg_dict) # 0 /\ NoPatternMatches(cell'))
           => tag' = init_tag
      /\ (WalkStep /\ tag' # tag)
           => (tag' = init_tag \/ TagMatches(tag', cell'))
    ]_vars

\* C7 witness: under A -> a.*, B -> b.* with default A, the cell c1 after b1
\* matches nothing and goes back to A, not on under B
C7_Witness ==
  /\ bar_pc = "walk"
  /\ seg_dict = Table.AB
  /\ default_tag = TagName.A
  /\ lv_ce_path = <<CellName.b1, CellName.c1>>
  /\ lv_key_path = <<TagName.B, TagName.A>>
  /\ tag = Some(TagName.A)

-----------------------------------------------------------------------------
(* Properties of report_summary                                            *)

\* the paths the loop has finished (0-based indices)
PathsDone == 0..(pid - 1)

CheckingEnabled == args.ckc_en \/ cons_cfg["ckc_en"]

CalledOn(p) == \E i \in 1..Len(ckc_calls) : ckc_calls[i].pid = p

\* C8: report_summary calls clock_path_check on a path only if clock
\* checking is enabled (-ckc or clock_check_enable) and the path is not
\* max-delay-only; a max-delay-only path is never handed to the checker,
\* whatever the options.
C8_CheckerOnlyOnClockedPaths ==
  /\ \A i \in 1..Len(ckc_calls) :
       /\ ckc_calls[i].pid \in 0..(Len(time_rpt_path) - 1)
       /\ CheckingEnabled
       /\ ~time_rpt_path[ckc_calls[i].pid + 1].max_dly_en
  /\ \A p \in 0..(Len(time_rpt_path) - 1) :
       time_rpt_path[p + 1].max_dly_en => ~CalledOn(p)

\* checking is on, a max-delay-only path and a clocked path have both been
\* through the loop, and the checker was called on the clocked one
C8_Witness ==
  /\ CheckingEnabled
  /\ \E p \in PathsDone : time_rpt_path[p + 1].max_dly_en
  /\ \E p \in PathsDone : ~time_rpt_path[p + 1].max_dly_en /\ CalledOn(p)

\* the positions of the column 'skew' in the csv
SkewColumns == {j \in 1..Len(csv_head) : csv_head[j] = Col.skew}

SkewOf(p) ==
  time_rpt_path[p + 1].llat - time_rpt_path[p + 1].clat
    - time_rpt_path[p + 1].crpr

\* the text of 0.5 as printed and as written to the csv
Text_p05 == <<" ","0",".","5","0","0","0">>
Text_05 == <<"0",".","5">>

\* C9: for every path the clock skew printed and the one exported in the
\* csv column 'skew' is llat - clat - crpr; for llat 2.0, clat 1.2 and
\* crpr 0.3 it is 0.5.
C9_SkewSubtractsCrpr ==
  /\ \A i \in 1..Len(stdout) :
       stdout[i].label = "clock skew:" =>
         /\ stdout[i].text = Fmt54(SkewOf(stdout[i].pid))
         /\ time_rpt_path[stdout[i].pid + 1] = Path_reg =>
              stdout[i].text = Text_p05
  /\ \A r \in 2..Len(csv_table) :
       \A j \in 1..Len(csv_table[r]) :
         DictKeys(csv_row)[j] = Col.skew =>
           /\ csv_table[r][j] = FloatV(SkewOf(r - 2))
           /\ time_rpt_path[r - 1] = Path_reg =>
                csv_table[r][j] = FloatV(Unit \div 2)
  /\ csv_file # None =>
       \A r \in 2..Len(csv_file[1]) :
         \A j \in 1..Len(DictKeys(csv_row)) :
           DictKeys(csv_row)[j] = Col.skew =>
             /\ Split(csv_file[1][r], " ")[j] = FloatStr(SkewOf(r - 2))
             /\ time_rpt_path[r - 1] = Path_reg =>
                  Split(csv_file[1][r], " ")[j] = Text_05

\* the skew of the 2.0 / 1.2 / 0.3 path and of a path with negative skew
\* have been printed, and a csv with a 'skew' column has been written for
\* the 2.0 / 1.2 / 0.3 path
C9_Witness ==
  /\ sum_pc = "done"
  /\ csv_file # None
  /\ SkewColumns # {}
  /\ Len(time_rpt_path) = 2
  /\ time_rpt_path[1] = Path_reg /\ time_rpt_path[2] = Path_neg
  /\ \E i \in 1..Len(stdout) :
       stdout[i].label = "clock skew:" /\ stdout[i].pid = 0
  /\ \E i \in 1..Len(stdout) :
       stdout[i].label = "clock skew:" /\ stdout[i].pid = 1
         /\ Head(stdout[i].text) = "-"

-----------------------------------------------------------------------------
(* Properties of the dc and hcd tables                                     *)

\* what the dc lines of TableLines declare: <<"r", pattern>> for the
\* catch-all regex, <<"n", cell, number>> for an override
DcDecl(l) ==
  IF l = RuleLine.dc_r THEN <<"r", Pattern.a>>
  ELSE IF l = RuleLine.dc_r2 THEN <<"r", Pattern.b>>
  ELSE IF l = RuleLine.dc_num THEN <<"n", <<"B","U","F">>, <<"1",".","5">> >>
  ELSE IF l = RuleLine.dc_num2 THEN <<"n", <<"B","U","F">>, <<"2">> >>
  ELSE IF l = RuleLine.dc_re THEN <<"n", <<"r","e">>, <<"1",".","5">> >>
  ELSE IF l = RuleLine.dc_inv
    THEN <<"n", <<"I","N","V">>, <<"-","0",".","7">> >>
  ELSE <<"-">>

DcDecls == SelectSeq([i \in 1..Len(file) |-> DcDecl(file[i])],
                     LAMBDA d : d[1] # "-")

\* the last declaration of the file that satisfies Want (Len = 0: none)
LastDc(Want(_)) ==
  LET hits == SelectSeq(DcDecls, Want)
  IN  IF hits = <<>> THEN <<>> ELSE hits[Len(hits)]

IsDcRegex(d) == d[1] = "r"

\* the catch-all regex as the lookup reads it: cons_cfg['dc']['re']
CatchAll ==
  IF DictHas(cons_cfg["dc"], <<"r","e">>)
    THEN DictGet(cons_cfg["dc"], <<"r","e">>)
    ELSE <<>>

\* C11: the catch-all regex and the per-cell overrides of dc are independent
\* entries: after any sequence of dc lines the catch-all regex is the
\* pattern of the last `dc: r` line (absent if there was none) and the
\* override of every cell name is the number of the last line for that cell.
C11_DcEntriesIndependent ==
  cfg_pc \in {"read", "returned"} =>
    /\ CatchAll = (IF LastDc(IsDcRegex) = <<>> THEN <<>>
                   ELSE <<"re", LastDc(IsDcRegex)[2]>>)
    /\ \A i \in 1..Len(DcDecls) :
         DcDecls[i][1] = "n" =>
           LET c == DcDecls[i][2]
               last == LastDc(LAMBDA d : d[1] = "n" /\ d[2] = c)
           IN  /\ DictHas(cons_cfg["dc"], c)
               /\ DictGet(cons_cfg["dc"], c) = <<"decimal", last[3]>>

-----------------------------------------------------------------------------
(* Properties of the advisory messages                                     *)

BarsWarned ==
  \E i \in 1..Len(stdout) :
    stdout[i].label = "[WARNING] The -bars option cannot find"

\* the data types -bard alone asks for
BardAlone ==
  IF args.bar_dtype = None THEN {}
  ELSE IF args.bar_dtype[1] = <<>>
    THEN {DT.p, DT.c, DT.t, DT.d, DT.i, DT.ct}
  ELSE SeqSet(args.bar_dtype[1]) \cup {DT.i}

\* the path the chart is drawn for and its pins
ChartPath == PyIndex(time_rpt_path, -1)
ChartPins == SeqSet(ChartPath.lpath) \cup SeqSet(ChartPath.cpath)

WarnedPins ==
  IF time_rpt_path = <<>> THEN {}
  ELSE {c \in ChartPins : \E i \in 1..Len(stdout) : stdout[i] = DrvWarn(c)}

InSeries(title, v) ==
  \E i \in 1..Len(db) : db[i][1] = title /\ v \in SeqSet(db[i][2])

\* the -bars and dpc advisories: the run goes on to its end
AdvisoryGoesOn ==
  /\ notice => cfg_pc = "returned" /\ err_ln = 0
  /\ BarsWarned =>
       /\ sum_pc = "done" /\ sum_err = ""
       /\ pid = Len(time_rpt_path)
       /\ args.csv_fp # None =>
            csv_file # None /\ Len(csv_file[1]) = Len(time_rpt_path) + 1
       /\ bar_dtype \subseteq BardAlone
  /\ WarnedPins # {} => sum_pc = "done" /\ sum_err = ""

LpathAt(c) == {k \in 0..(Len(ChartPath.lpath) - 1) : ChartPath.lpath[k + 1] = c}

-----------------------------------------------------------------------------
(* Further properties of load_times_cfg                                    *)

\* the configuration of the hard-coded defaults, written out
HardDefaults ==
  [ckc_en |-> FALSE, dts_en |-> FALSE, seg_en |-> FALSE, ckm_nock |-> FALSE,
   thp_on_rpt |-> FALSE, slk_on_rpt |-> TRUE, unce_on_rpt |-> FALSE,
   lib_on_rpt |-> FALSE, dplv_on_rpt |-> FALSE, ck_skew_on_rpt |-> TRUE,
   seg_dlat_on_rpt |-> TRUE, seg_ddt_on_rpt |-> TRUE,
   seg_llat_on_rpt |-> TRUE, seg_ldt_on_rpt |-> TRUE,
   seg_clat_on_rpt |-> TRUE, seg_cdt_on_rpt |-> TRUE,
   seg_clat_inc_crpr |-> TRUE,
   bds |-> <<>>, ckpc |-> {}, ckpi |-> {}, ckpr |-> <<>>, hcd |-> <<>>,
   ckt |-> <<>>, ckm |-> <<>>, dpc |-> None, pc |-> <<>>, cc |-> <<>>,
   dc |-> <<>>]

QuietLines == {RuleLine.blank, RuleLine.comment, RuleLine.comment_pc}

\* C13: with no file, and with a file of blank lines and comments only, the
\* loader returns the default configuration (every toggle at its hard-coded
\* default, every table empty, dpc unset) and never raises.
C13_DefaultsWithoutRules ==
  (\A i \in 1..Len(file) : file[i] \in QuietLines) =>
    /\ cons_cfg = HardDefaults
    /\ cfg_pc # "error" /\ err_ln = 0
    /\ ~notice

\* a file of a blank line, a comment and an indented comment that holds a
\* rule has been loaded to the end
C13_Witness ==
  /\ cfg_pc = "returned"
  /\ file = <<RuleLine.blank, RuleLine.comment_pc, RuleLine.comment>>
  /\ cons_cfg = HardDefaults

\* what the well-formed hcd lines of TableLines declare; the quoted and the
\* unquoted spelling of the tag declare the same entry
HcdDecl(l) ==
  LET T == <<"T">>
      ab == <<"a",":","b">>
  IN  IF l \in {RuleLine.hcd, RuleLine.hcd_qt}
        THEN [type |-> T, pins |-> ab, tag |-> <<"t","a","g">>]
      ELSE IF l = RuleLine.hcd_q
        THEN [type |-> T, pins |-> ab, tag |-> <<"m","y"," ","t","a","g">>]
      ELSE IF l = RuleLine.hcd_new
        THEN [type |-> T, pins |-> ab, tag |-> <<"n","e","w">>]
      ELSE IF l = RuleLine.hcd_c
        THEN [type |-> T, pins |-> <<"a",":","c">>,
              tag |-> <<"o","t","h","e","r">>]
      ELSE IF l = RuleLine.hcd_U
        THEN [type |-> <<"U">>, pins |-> ab, tag |-> <<"t","a","g">>]
      ELSE [type |-> <<>>, pins |-> <<>>, tag |-> <<>>]

HcdGood ==
  {RuleLine.hcd, RuleLine.hcd_qt, RuleLine.hcd_q, RuleLine.hcd_new,
   RuleLine.hcd_c, RuleLine.hcd_U}

\* cfg['hcd'][type][pins], None when there is no such entry
HcdAt(cfg, type, pins) ==
  IF DictHas(cfg["hcd"], type) /\ DictHas(DictGet(cfg["hcd"], type), pins)
    THEN Some(DictGet(DictGet(cfg["hcd"], type), pins))
    ELSE None

HcdSlots == {<<HcdDecl(l).type, HcdDecl(l).pins>> : l \in HcdGood}

\* C16: an hcd line with a bare tag and the line with the same tag in double
\* quotes give the same configuration; the line sets hcd[type]["pi:po"] to
\* the tag, a quoted tag keeping its spaces and losing its quotes; the line
\* leaves every other hcd entry and every other key as they were.
C16_HcdEntry ==
  [][(file' # file /\ line' \in HcdGood) =>
       LET d == HcdDecl(line')
       IN  /\ cfg_pc' = "read"
           /\ LoadLine(cons_cfg, RuleLine.hcd)
                = LoadLine(cons_cfg, RuleLine.hcd_qt)
           /\ HcdAt(cons_cfg', d.type, d.pins) = Some(d.tag)
           /\ \A s \in HcdSlots :
                s # <<d.type, d.pins>> =>
                  HcdAt(cons_cfg', s[1], s[2]) = HcdAt(cons_cfg, s[1], s[2])
           /\ \A k \in DOMAIN cons_cfg :
                k # "hcd" => cons_cfg'[k] = cons_cfg[k]]_vars

\* the quoted line for T a:b was read after the line for T a:c and then
\* overwritten: T holds a:c and the new a:b
C16_Witness ==
  /\ cfg_pc = "read"
  /\ file = <<RuleLine.hcd_c, RuleLine.hcd_qt, RuleLine.hcd_new>>
  /\ HcdAt(cons_cfg, <<"T">>, <<"a",":","c">>) = Some(<<"o","t","h","e","r">>)
  /\ HcdAt(cons_cfg, <<"T">>, <<"a",":","b">>) = Some(<<"n","e","w">>)

\* the value the i-th toggle key is given by line l of ToggleLines, as a set:
\* empty when l is a line for another key, a table line or a comment
ToggleSaid(i, l) ==
  {v \in ToggleValues \cup OtherValues : l = ToggleLine(attr[i].key, v)}
    \cup (IF attr[i].name = "slk_on_rpt" /\ l = RuleLine.slk_off
            THEN {<<"F","A","L","S","E">>} ELSE {})

\* the positions of the file that hold a line for the i-th toggle key
ToggleAt(i) == {j \in 1..Len(file) : ToggleSaid(i, file[j]) # {}}

\* C17: the value of a toggle key is decided by the last line of the file
\* for that key alone: the opposite of the default if and only if that line
\* spells it, the default otherwise, whatever earlier lines for the key said;
\* without such a line the key is at its default, whatever the lines for the
\* other toggle keys and the table lines said.
C17_LastToggleLineDecides ==
  cfg_pc \in {"read", "returned"} =>
    \A i \in 1..Len(attr) :
      IF ToggleAt(i) = {}
        THEN cons_cfg[attr[i].name] = attr[i].dflt
        ELSE LET last == CHOOSE j \in ToggleAt(i) :
                           \A k \in ToggleAt(i) : k <= j
             IN  \A v \in ToggleSaid(i, file[last]) :
                   cons_cfg[attr[i].name] = ToggleExpected(attr[i].dflt, v)

\* a key switched on and then reset by a later line that spells no boolean
C17_Witness ==
  /\ cfg_pc = "returned"
  /\ file = << ToggleLine(AttrByName("seg_en").key, <<"t","r","u","e">>),
               ToggleLine(AttrByName("seg_en").key, <<"n","o">>) >>
  /\ cons_cfg["seg_en"] = FALSE

-----------------------------------------------------------------------------
(* Properties of main                                                      *)

\* the number a text of decimal digits writes
RECURSIVE Value(_, _)
Value(t, acc) ==
  IF t = <<>> THEN acc
  ELSE Value(Tail(t),
             acc * 10 + (CHOOSE d \in 0..9 : NatStr(d) = <<Head(t)>>))

IsNumber(t) == t # <<>> /\ \A i \in 1..Len(t) : t[i] \in Digits

\* the pieces of an element written st[:ed][+nu]: what precedes the first
\* "+" is st or st:ed, what follows it is nu
Pieces(e) ==
  LET plus == Split(e, "+")
      colon == Split(plus[1], ":")
  IN  [st |-> colon[1],
       ed |-> IF Len(colon) = 2 THEN Some(colon[2]) ELSE None,
       nu |-> IF Len(plus) = 2 THEN Some(plus[2]) ELSE None,
       parts |-> <<Len(colon), Len(plus)>>]

WellFormed(e) ==
  LET p == Pieces(e)
  IN  /\ p.parts[1] <= 2 /\ p.parts[2] <= 2
      /\ IsNumber(p.st)
      /\ p.ed # None => IsNumber(p.ed[1])
      /\ p.nu # None => IsNumber(p.nu[1])

RangeOf(e) ==
  LET p == Pieces(e)
  IN  << Value(p.st, 0),
         IF p.ed = None THEN None ELSE Some(Value(p.ed[1], 0)),
         IF p.nu = None THEN None ELSE Some(Value(p.nu[1], 0)) >>

\* C18: when main hands range_list to report_summary, the list holds, in the
\* order written, [st, ed or None, nu or None] for every comma-separated
\* element of -r of the form st[:ed][+nu] and nothing for the other
\* elements; it is [[0, None, 1]] when -r is absent or has no such element.
C18_RangeList ==
  main_pc = "done" =>
    LET elems == IF arg_range = None THEN <<>> ELSE Split(arg_range[1], ",")
        good == SelectSeq(elems, WellFormed)
    IN  range_list = IF good = <<>> THEN << <<0, None, Some(1)>> >>
                     ELSE [i \in 1..Len(good) |-> RangeOf(good[i])]

\* -r "6:0,x": the first element is a range, the second is dropped
C18_Witness ==
  /\ main_pc = "done"
  /\ arg_range = Some(<<"6", ":", "0", ",", "x">>)
  /\ range_list = << <<6, Some(0), None>> >>

-----------------------------------------------------------------------------
(* Further properties of report_summary                                    *)

\* path p has its startpoint/endpoint header on stdout
HasHeader(p) ==
  \E i \in 1..Len(stdout) :
    stdout[i].pid = p /\ stdout[i].label = "Startpoint:"

\* C19: report_summary emits a summary block for every path of the report,
\* also for a path without spin (no clock launch): every path passed has its
\* header, and the function never stops with an error at a path whose spin
\* is absent.
C19_SummaryForEveryPath ==
  (sum_pc \in {"loop", "done", "error"} /\ ~args.is_debug) =>
    /\ \A p \in 0..(pid - 1) : HasHeader(p)
    /\ sum_pc = "error" => time_rpt_path[pid + 1].spin # None

\* C20: -csv without -csvc exports the columns LN ARR REQ SLK and one row
\* per path, whether or not path segmentation is enabled and whether or not
\* pc patterns exist (for a report whose paths all have a startpoint pin).
C20_DefaultCsvColumns ==
  (/\ args.csv_fp # None /\ args.csv_ctype = None
   /\ sum_pc \in {"done", "error"}
   /\ \A i \in 1..Len(time_rpt_path) : time_rpt_path[i].spin # None) =>
    /\ sum_pc = "done"
    /\ csv_file # None
    /\ Len(csv_file[1]) = 1 + Len(time_rpt_path)
    /\ csv_file[1][1] = <<"L","N"," ","A","R","R"," ","R","E","Q"," ",
                          "S","L","K">>

\* the launch clock network of a path: lpath from the source to the startpoint
LaunchClock(path) == SubSeq(path.lpath, 1, path.spin[1] + 1)

\* the two clock networks share their first k pins and part after them, or
\* one of them ends there
ForkAt(path, k) ==
  LET l == LaunchClock(path)
      c == path.cpath
  IN  /\ k <= Len(l) /\ k <= Len(c)
      /\ \A i \in 1..k : l[i].name = c[i].name
      /\ (k < Len(l) /\ k < Len(c)) => l[k + 1].name # c[k + 1].name

\* the fork line of a path whose clock networks part after k pins, a and b
\* the report lines cited for the launch and the capture side
ForkLine(path, k, a, b) ==
  NatStr(Len(LaunchClock(path))) \o <<"/">> \o NatStr(Len(path.cpath))
    \o <<"/">> \o NatStr(k) \o <<" ", " ", " ", " ", "(", "l", "n", ":">>
    \o NatStr(a) \o <<":">> \o NatStr(b) \o <<")">>

\* C15: for every path the clock path check ran on, report_summary prints
\* the fork line with the index at which the launch and the capture clock
\* network part, walked in lockstep from the source (the full length when
\* they never part), and the report lines of the pins that part, as the
\* check handed them back; for the networks clk bufA bufB bufC and
\* clk bufA bufB bufD the index is 3 and the lines are those of bufC and bufD.
C15_ForkIndexPrinted ==
  \A i \in 1..Len(ckc_calls) :
    LET p == ckc_calls[i].pid
        path == time_rpt_path[p + 1]
        l == LaunchClock(path)
        c == path.cpath
    IN  /\ \E k \in 1..Len(l) :
             /\ ForkAt(path, k)
             /\ \E j \in 1..Len(stdout) :
                  stdout[j] =
                    Ln(p, "clock network path fork:",
                       ForkLine(path, k,
                                l[IF k < Len(l) THEN k + 1 ELSE k].ln,
                                c[IF k < Len(c) THEN k + 1 ELSE k].ln))
        /\ path = Path_fork =>
             \E j \in 1..Len(stdout) :
               stdout[j] = Ln(p, "clock network path fork:",
                              ForkLine(path, 3, 54, 64))

\* the check has run on the path whose clock networks part after clk, bufA
\* and bufB, and the fork line of that path is on stdout
C15_Witness ==
  /\ sum_pc = "done"
  /\ time_rpt_path = <<Path_fork>>
  /\ ckc_calls # <<>>
  /\ \E j \in 1..Len(stdout) :
       /\ stdout[j].label = "clock network path fork:"
       /\ stdout[j].text = <<"4","/","4","/","3"," "," "," "," ",
                             "(","l","n",":","5","4",":","6","4",")">>

-----------------------------------------------------------------------------
(* Properties of the scan ranges                                           *)

\* the blocks of Report a range [st, ed, nu] selects: those that begin at or
\* after st and do not extend past ed, less those with nu or more selected
\* blocks before them in the text
InRange(r) ==
  LET fit == {i \in 1..Len(Report) :
                /\ Report[i].begin >= r[1]
                /\ r[2] # None => Report[i].end <= r[2][1]}
  IN  {i \in fit :
         r[3] # None => Cardinality({j \in fit : j < i}) < r[3][1]}

\* the paths of a set of blocks, in text order
InTextOrder(S) ==
  LET f == CHOOSE g \in [1..Cardinality(S) -> S] :
             \A a, b \in 1..Cardinality(S) : a < b => g[a] < g[b]
  IN  [k \in 1..Cardinality(S) |-> Report[f[k]].path]

RECURSIVE Selected(_)
Selected(ranges) ==
  IF ranges = <<>> THEN <<>>
  ELSE InTextOrder(InRange(Head(ranges))) \o Selected(Tail(ranges))

C21_RowMatchesHeader ==
  \A k \in 2..Len(csv_table) :
    /\ Len(csv_table[k]) = Len(csv_table[1])
    /\ Len(csv_table[1]) = Len(csv_head)
    /\ \A j \in 1..Len(csv_head) :
         csv_table[k][j] = CsvValue(cons_cfg, time_rpt_path[k - 1], csv_head[j])

-----------------------------------------------------------------------------
(* Properties of str2int                                                   *)

\* the hexadecimal digits of a number below 256, without prefix
HexText(n) ==
  LET digit(d) == IF d < 10 THEN NatStr(d)
                  ELSE <<<<"a","b","c","d","e","f">>[d - 9]>>
  IN  IF n < 16 THEN digit(n) ELSE digit(n \div 16) \o digit(n % 16)

Accepted23 == str_pc = "return"

\* C23: for bit width w, a decimal text is accepted if and only if its
\* value is in 0..2^w-1 (unsigned) or in -2^(w-1)..2^(w-1)-1 (signed), and
\* its value is returned; a 0x or 0X text is accepted if and only if its
\* value v is below 2^w, and the result is v, or in signed mode v - 2^w when
\* bit w-1 of v is set; signed results are in -2^(w-1)..2^(w-1)-1; whatever
\* is not accepted, a text that spells no number included, raises ValueError.
C23_Str2IntRange ==
  str_pc \in {"return", "ValueError"} =>
    LET lo == IF is_signed THEN -(2 ^ (bits - 1)) ELSE 0
        hi == IF is_signed THEN 2 ^ (bits - 1) - 1 ELSE 2 ^ bits - 1
    IN  /\ \A n \in 0..MaxNum :
             /\ str_ = NatStr(n) =>
                  /\ Accepted23 <=> n <= hi
                  /\ Accepted23 => num = n
             /\ str_ = <<"-">> \o NatStr(n) =>
                  /\ Accepted23 <=> -n >= lo
                  /\ Accepted23 => num = -n
             /\ str_ \in {<<"0","x">> \o HexText(n),
                          <<"0","X">> \o Upper(HexText(n))} =>
                  /\ Accepted23 <=> n < 2 ^ bits
                  /\ Accepted23 =>
                       num = IF is_signed /\ (n \div 2 ^ (bits - 1)) % 2 = 1
                               THEN n - 2 ^ bits ELSE n
        /\ (Accepted23 /\ is_signed) => num \in lo..hi
        /\ str_ \in { <<>>, <<"0","x">>, <<"a","b","c">>, <<"-","0","x","1">>,
                      <<"0","x","-","1">>, <<"1","f">>, <<"-">>,
                      <<"0","x","1","g">>, <<"-","-","1">> } =>
             str_pc = "ValueError"

\* 0xf in signed mode at width 4: bit 3 is set, the result is 15 - 16
C23_Witness ==
  /\ str_pc = "return"
  /\ str_ = <<"0","x","f">> /\ is_signed /\ bits = 4
  /\ num = -1

-----------------------------------------------------------------------------
(* C22: the RESET key                                                      *)

\* the last event handled is the key k
KeyWas(e, k) == e.type = "key_press_event" /\ e.name = k

\* the pin name as a bubble shows it at level 2
Level2Name(name) ==
  LET toks == Split(name, "/")
  IN  IF Len(toks) > 2
        THEN <<".", ".", ".", "/">> \o toks[Len(toks) - 1] \o <<"/">>
               \o toks[Len(toks)]
        ELSE name

\* C22: pressing 'r' leaves every bubble at x = -0.5 and ratio 0.5 whatever
\* moves came before; the level goes back to 2 and the first line of the
\* text to the level 2 pin name only for a bubble that was at the default
\* position when 'r' was pressed, any other bubble keeps its level and its
\* text; after an 'r' that follows an 'r' every bubble is at the default
\* position with level 2; a key that key_event_check maps to NONE changes
\* no bubble.
C22_ResetRestores ==
  [][ /\ KeyWas(event', "r") =>
           \A i \in 1..Len(pt_anno_list) : \A j \in 1..Len(pt_anno_list[i]) :
             LET b == pt_anno_list[i][j]
                 c == pt_anno_list'[i][j]
             IN  /\ c.x = -5 /\ c.info.dy_rt = 5
                 /\ IF b.x = -5 /\ b.info.dy_rt = 5
                      THEN /\ c.info.plv = 2
                           /\ Split(c.text, "\n")[1]
                                = <<"p","i","n",":"," ">> \o Level2Name(b.info.ce.name)
                      ELSE c.info.plv = b.info.plv /\ c.text = b.text
                 /\ KeyWas(event, "r") => c.info.plv = 2
      /\ (event'.type = "key_press_event"
            /\ event'.name \notin {"escape", "up", "down", "left", "right",
                                   "a", "d", "1", "2", "r"})
           => pt_anno_list' = pt_anno_list
    ]_vars

\* 'r' was pressed on bubbles that had been moved and set to another level:
\* they are back at the default position and keep that level
C22_Witness ==
  /\ KeyWas(event, "r")
  /\ \E i \in 1..Len(pt_anno_list) : \E j \in 1..Len(pt_anno_list[i]) :
       /\ pt_anno_list[i][j].x = -5 /\ pt_anno_list[i][j].info.dy_rt = 5
       /\ pt_anno_list[i][j].info.plv = 3

====
